---------------------------- MODULE Spec2Model ----------------------------
(***************************************************************************)
(* A model of the AIVDM/AIVDO decoder of contrib/ais.py (the bit vector,   *)
(* the instruction tables, the unpacking interpreter aivdm_unpack and the  *)
(* stream driver parse_ais_messages) and of the message-1 codec of         *)
(* ais/ais_msg_1.py.                                                       *)
(*                                                                         *)
(* Representation.  A Python str that is read character by character is    *)
(* the sequence of its character codes (ord).  A decoded text value is the *)
(* sequence of its one-character strings.  A Python int that may grow      *)
(* beyond 31 bits (the accumulator fld of ubits) is the sequence of its    *)
(* binary digits, most significant first.  A raised exception is the err   *)
(* field of a result record.                                               *)
(***************************************************************************)
EXTENDS Integers, Sequences, FiniteSets, TLC

VARIABLES
  bv,        \* SpecBits: the BitVector under test
  q,         \* SpecBits: the last extraction asked of bv, with its result
  sixbit,    \* SpecBits: the characters from_sixbit was given, in order
  uin,       \* SpecUnpack: the instruction table and the payload given
  ures,      \* SpecUnpack: what aivdm_unpack made of them
  pin,       \* SpecPost: the list cooked given to the post-processing
  pres,      \* SpecPost: what the post-processing made of it
  source,    \* SpecDriver: the lines readline has yet to give and has given
  drv,       \* SpecDriver: the generator parse_ais_messages(source)
  params,    \* SpecMsg1: the dictionary given to ais_msg_1.encode
  m1         \* SpecMsg1: what encode and then decode returned

vars == <<bv, q, sixbit, uin, ures, pin, pres, source, drv, params, m1>>

bitsVars   == <<bv, q, sixbit>>
unpackVars == <<uin, ures>>
postVars   == <<pin, pres>>
driverVars == <<source, drv>>
msg1Vars   == <<params, m1>>

-----------------------------------------------------------------------------
(* Arithmetic helpers                                                      *)

RECURSIVE Pow10(_)
Pow10(n) == IF n <= 0 THEN 1 ELSE 10 * Pow10(n - 1)

RECURSIVE Pow2(_)
Pow2(n) == IF n <= 0 THEN 1 ELSE 2 * Pow2(n - 1)

\* (x >> i) & 0x01 on a Python int (floor semantics, also for x < 0)
BitAt(x, i) == (x \div Pow2(i)) % 2

\* the eight binary digits of a byte, most significant first
ByteBits(b) == [k \in 1..8 |-> BitAt(b, 8 - k)]

\* An assignment to a local variable: v is computed once, here, and F is
\* given the value.  Every loop below carries its state from one round to
\* the next through Bind.
Bind(v, F(_)) == CHOOSE r \in {F(x) : x \in {v}} : TRUE

\* the number whose binary digits are f, most significant first: the high
\* half of the digits shifted over the low half
RECURSIVE BitsToNat(_)
BitsToNat(f) ==
  IF f = <<>> THEN 0
  ELSE IF Len(f) = 1 THEN f[1]
  ELSE Bind(<<SubSeq(f, 1, Len(f) \div 2),
              SubSeq(f, (Len(f) \div 2) + 1, Len(f))>>,
            LAMBDA h : BitsToNat(h[1]) * Pow2(Len(h[2])) + BitsToNat(h[2]))

-----------------------------------------------------------------------------
(* class BitVector                                                         *)

BITS_PER_BYTE == 8

\* BitVector(): no data, bitlen 0
BitVectorEmpty == [bits |-> <<>>, bitlen |-> 0]

\* BitVector(data, length) with a length given
BitVectorOf(data, length) == [bits |-> data, bitlen |-> length]

\* self.bits[k] |= (1 << s)
OrBit(bits, k, s) ==
  IF BitAt(bits[k + 1], s) = 1 THEN bits
  ELSE [bits EXCEPT ![k + 1] = @ + Pow2(s)]

\* ch = ord(ch) - 48 alone
UnarmorNoGap(c) == c - 48

\* ch = ord(ch) - 48; if ch > 40: ch -= 8
Unarmor(c) == IF c - 48 > 40 THEN c - 48 - 8 ELSE c - 48

\* for i in (5, 4, 3, 2, 1, 0): set the bit when (ch >> i) & 1, bitlen += 1
RECURSIVE SixbitInner(_, _, _)
SixbitInner(b, ch, i) ==
  IF i < 0 THEN b
  ELSE Bind([bits   |-> IF BitAt(ch, i) = 1
                        THEN OrBit(b.bits, b.bitlen \div 8, 7 - (b.bitlen % 8))
                        ELSE b.bits,
             bitlen |-> b.bitlen + 1],
            LAMBDA b1 : SixbitInner(b1, ch, i - 1))

\* for ch in data, run for the characters lo..hi in order: the first half
\* of the range, then the second
RECURSIVE SixbitOuter(_, _, _, _)
SixbitOuter(b, data, lo, hi) ==
  IF lo > hi THEN b
  ELSE IF lo = hi THEN SixbitInner(b, Unarmor(data[lo]), 5)
  ELSE Bind(SixbitOuter(b, data, lo, (lo + hi) \div 2),
            LAMBDA b1 : SixbitOuter(b1, data, ((lo + hi) \div 2) + 1, hi))

\* from_sixbit: one zero byte per character, then the bits of each character
from_sixbit(b, data) ==
  Bind([bits   |-> b.bits \o [k \in 1..Len(data) |-> 0],
        bitlen |-> b.bitlen],
       LAMBDA b0 : SixbitOuter(b0, data, 1, Len(data)))

\* fld <<= 8; fld |= byte
ShiftLeftOr(fld, byte) == fld \o ByteBits(byte)

\* fld >>= n
ShiftRight(fld, n) == SubSeq(fld, 1, Len(fld) - n)

\* fld &= ~(-1 << width)
MaskLow(fld, width) ==
  IF Len(fld) <= width THEN fld
  ELSE SubSeq(fld, Len(fld) - width + 1, Len(fld))

\* the loop over range(start/8, (start + width + 7)/8); self.bits[i] raises
\* IndexError when i is past the array.  read collects the indices i of the
\* bytes the loop has read.
RECURSIVE UbitsLoop(_, _, _, _, _)
UbitsLoop(bits, i, hi, fld, read) ==
  IF i >= hi THEN [err |-> "none", fld |-> fld, read |-> read]
  ELSE IF i >= Len(bits) THEN [err |-> "IndexError", fld |-> fld, read |-> read]
  ELSE Bind(<<ShiftLeftOr(fld, bits[i + 1]), read \cup {i}>>,
            LAMBDA n : UbitsLoop(bits, i + 1, hi, n[1], n[2]))

\* end = (start + width) % BITS_PER_BYTE, read as the start alone
UbitsEndOfStart(start, width) == start % BITS_PER_BYTE

UbitsEnd(start, width) == (start + width) % BITS_PER_BYTE

ubits(b, start, width) ==
  Bind(UbitsLoop(b.bits, start \div BITS_PER_BYTE,
                 (start + width + BITS_PER_BYTE - 1) \div BITS_PER_BYTE,
                 <<>>, {}),
       LAMBDA loop :
         LET end == UbitsEnd(start, width)
             sh  == IF end # 0 THEN ShiftRight(loop.fld, BITS_PER_BYTE - end)
                    ELSE loop.fld
         IN  IF loop.err # "none"
             THEN [err |-> loop.err, v |-> 0, read |-> loop.read]
             ELSE [err |-> "none", v |-> BitsToNat(MaskLow(sh, width)),
                   read |-> loop.read])

\* the sign test of sbits taken one bit too high: fld & (1 << width)
SignFoldHighBit(fld, width) ==
  IF BitAt(fld, width) = 1 THEN -(Pow2(width) - fld) ELSE fld

\* if fld & (1 << (width-1)): fld = -(2 ** width - fld)
SignFold(fld, width) ==
  IF BitAt(fld, width - 1) = 1 THEN -(Pow2(width) - fld) ELSE fld

sbits(b, start, width) ==
  Bind(ubits(b, start, width),
       LAMBDA u :
         IF u.err # "none" THEN u
         ELSE [err |-> "none", v |-> SignFold(u.v, width), read |-> u.read])

-----------------------------------------------------------------------------
(* The pseudoinstructions: class bitfield, class spare, class dispatch.    *)
(* oob and formatter take no part in extraction and are left out; a        *)
(* validator or a compute hook is named by a tag.  A dispatch names its    *)
(* subtypes; Schema resolves a name to its table.                          *)

bitfield(name, width, dtype, legend, validator) ==
  [kind |-> "bitfield", name |-> name, width |-> width, type |-> dtype,
   legend |-> legend, validator |-> validator,
   fieldname |-> "", subtypes |-> <<>>, compute |-> ""]

spare(width) ==
  [kind |-> "spare", name |-> "", width |-> width, type |-> "",
   legend |-> "", validator |-> "",
   fieldname |-> "", subtypes |-> <<>>, compute |-> ""]

dispatch(fieldname, subtypes, compute) ==
  [kind |-> "dispatch", name |-> "", width |-> 0, type |-> "",
   legend |-> "", validator |-> "",
   fieldname |-> fieldname, subtypes |-> subtypes, compute |-> compute]

-----------------------------------------------------------------------------
(* The instruction tables                                                  *)

\* lines 118-139
cnb ==
  << bitfield("status", 4, "unsigned", "Navigation Status", "NoValidator"),
     bitfield("turn", 8, "signed", "Rate of Turn", "NoValidator"),
     bitfield("speed", 10, "unsigned", "Speed Over Ground", "NoValidator"),
     bitfield("accuracy", 1, "unsigned", "Position Accuracy", "NoValidator"),
     bitfield("lon", 28, "signed", "Longitude", "NoValidator"),
     bitfield("lat", 27, "signed", "Latitude", "NoValidator"),
     bitfield("course", 12, "unsigned", "Course Over Ground", "NoValidator"),
     bitfield("heading", 9, "unsigned", "True Heading", "NoValidator"),
     bitfield("second", 6, "unsigned", "Time Stamp", "NoValidator"),
     bitfield("maneuver", 2, "unsigned", "Maneuver Indicator", "NoValidator"),
     spare(3),
     bitfield("raim", 1, "unsigned", "RAIM flag", "NoValidator"),
     bitfield("radio", 19, "unsigned", "Radio status", "NoValidator") >>

\* lines 153-171
type4 ==
  << bitfield("year", 14, "unsigned", "Year", "NoValidator"),
     bitfield("month", 4, "unsigned", "Month", "NoValidator"),
     bitfield("day", 5, "unsigned", "Day", "NoValidator"),
     bitfield("hour", 5, "unsigned", "Hour", "NoValidator"),
     bitfield("minute", 6, "unsigned", "Minute", "NoValidator"),
     bitfield("second", 6, "unsigned", "Second", "NoValidator"),
     bitfield("accuracy", 1, "unsigned", "Fix quality", "NoValidator"),
     bitfield("lon", 28, "signed", "Longitude", "NoValidator"),
     bitfield("lat", 27, "signed", "Latitude", "NoValidator"),
     bitfield("epfd", 4, "unsigned", "Type of EPFD", "ValidEpfd"),
     spare(10),
     bitfield("raim", 1, "unsigned", "RAIM flag ", "NoValidator"),
     bitfield("radio", 19, "unsigned", "SOTDMA state", "NoValidator") >>

\* lines 276-299
type5 ==
  << bitfield("ais_version", 2, "unsigned", "AIS Version", "NoValidator"),
     bitfield("imo_id", 30, "unsigned", "IMO Identification Number", "NoValidator"),
     bitfield("callsign", 42, "string", "Call Sign", "NoValidator"),
     bitfield("shipname", 120, "string", "Vessel Name", "NoValidator"),
     bitfield("shiptype", 8, "unsigned", "Ship Type", "ValidShiptype"),
     bitfield("to_bow", 9, "unsigned", "Dimension to Bow", "NoValidator"),
     bitfield("to_stern", 9, "unsigned", "Dimension to Stern", "NoValidator"),
     bitfield("to_port", 6, "unsigned", "Dimension to Port", "NoValidator"),
     bitfield("to_starbord", 6, "unsigned", "Dimension to Starboard", "NoValidator"),
     bitfield("epfd", 4, "unsigned", "Position Fix Type", "ValidEpfd"),
     bitfield("month", 4, "unsigned", "ETA month", "NoValidator"),
     bitfield("day", 5, "unsigned", "ETA day", "NoValidator"),
     bitfield("hour", 5, "unsigned", "ETA hour", "NoValidator"),
     bitfield("minute", 6, "unsigned", "ETA minute", "NoValidator"),
     bitfield("second", 8, "unsigned", "Draught", "NoValidator"),
     bitfield("destination", 120, "string", "Destination", "NoValidator"),
     bitfield("dte", 1, "unsigned", "DTE", "NoValidator"),
     spare(1) >>

\* lines 301-308
type6 ==
  << bitfield("seqno", 2, "unsigned", "Sequence Number", "NoValidator"),
     bitfield("dest_mmsi", 30, "unsigned", "Destination MMSI", "NoValidator"),
     bitfield("retransmit", 1, "unsigned", "Retransmit flag", "NoValidator"),
     spare(1),
     bitfield("application_id", 16, "unsigned", "Application ID", "NoValidator"),
     bitfield("data", 920, "raw", "Data", "NoValidator") >>

\* lines 310-320
type7 ==
  << spare(2),
     bitfield("mmsi1", 30, "unsigned", "MMSI number 1", "NoValidator"),
     spare(2),
     bitfield("mmsi2", 30, "unsigned", "MMSI number 2", "NoValidator"),
     spare(2),
     bitfield("mmsi3", 30, "unsigned", "MMSI number 3", "NoValidator"),
     spare(2),
     bitfield("mmsi1", 30, "unsigned", "MMSI number 4", "NoValidator"),
     spare(2) >>

\* lines 322-326
type8 ==
  << spare(2),
     bitfield("application_id", 16, "unsigned", "Application ID", "NoValidator"),
     bitfield("data", 952, "raw", "Data", "NoValidator") >>

\* lines 342-362
type9 ==
  << bitfield("alt", 12, "unsigned", "Altitude", "NoValidator"),
     bitfield("speed", 10, "unsigned", "SOG", "NoValidator"),
     bitfield("accuracy", 1, "unsigned", "Position Accuracy", "NoValidator"),
     bitfield("lon", 28, "signed", "Longitude", "NoValidator"),
     bitfield("lat", 27, "signed", "Latitude", "NoValidator"),
     bitfield("course", 12, "unsigned", "Course Over Ground", "NoValidator"),
     bitfield("second", 6, "unsigned", "Time Stamp", "NoValidator"),
     bitfield("regional", 8, "unsigned", "Regional reserved", "NoValidator"),
     bitfield("dte", 1, "unsigned", "DTE", "NoValidator"),
     spare(3),
     bitfield("assigned", 1, "unsigned", "Assigned", "NoValidator"),
     bitfield("raim", 1, "unsigned", "RAIM flag", "NoValidator"),
     bitfield("radio", 20, "unsigned", "Radio status", "NoValidator") >>

\* lines 364-368
type10 ==
  << spare(2),
     bitfield("dest_mmsi", 30, "unsigned", "Destination MMSI", "NoValidator"),
     spare(2) >>

\* lines 370-376
type12 ==
  << bitfield("seqno", 2, "unsigned", "Sequence Number", "NoValidator"),
     bitfield("dest_mmsi", 30, "unsigned", "Destination MMSI", "NoValidator"),
     bitfield("retransmit", 1, "unsigned", "Retransmit flag", "NoValidator"),
     spare(1),
     bitfield("text", 936, "string", "Text", "NoValidator") >>

\* lines 378-381
type14 ==
  << spare(1),
     bitfield("text", 968, "string", "Text", "NoValidator") >>

\* lines 383-396
type15 ==
  << spare(2),
     bitfield("mmsi1", 30, "unsigned", "Interrogated MMSI", "NoValidator"),
     bitfield("type1_1", 6, "unsigned", "First message type", "NoValidator"),
     bitfield("offset1_1", 12, "unsigned", "First slot offset", "NoValidator"),
     spare(2),
     bitfield("type1_2", 6, "unsigned", "Second message ty", "NoValidator"),
     bitfield("offset1_2", 12, "unsifned", "Second slot offset", "NoValidator"),
     spare(2),
     bitfield("mmsi2", 30, "unsigned", "Interrogated MMSI", "NoValidator"),
     bitfield("type2_1", 6, "unsigned", "First message type", "NoValidator"),
     bitfield("offset2_1", 12, "unsifned", "First slot offset", "NoValidator"),
     spare(2) >>

\* lines 398-408
type16 ==
  << spare(2),
     bitfield("mmsi1", 30, "unsigned", "Interrogated MMSI", "NoValidator"),
     bitfield("offset1  ", 12, "unsigned", "First slot offset", "NoValidator"),
     bitfield("increment1", 10, "unsigned", "Slot increment", "NoValidator"),
     spare(2),
     bitfield("mmsi2", 30, "unsigned", "Interrogated MMSI", "NoValidator"),
     bitfield("offset2", 12, "unsifned", "First slot offset", "NoValidator"),
     bitfield("increment2", 10, "unsigned", "Slot increment", "NoValidator"),
     spare(2) >>

\* lines 413-421
type17 ==
  << spare(2),
     bitfield("lon", 18, "signed", "Longitude", "NoValidator"),
     bitfield("lat", 17, "signed", "Latitude", "NoValidator"),
     spare(2),
     bitfield("data", 736, "raw", "DGNSS data", "NoValidator") >>

\* lines 423-446
type18 ==
  << bitfield("reserved", 8, "unsigned", "Regional reserved", "NoValidator"),
     bitfield("speed", 10, "unsigned", "Speed Over Ground", "NoValidator"),
     bitfield("accuracy", 1, "unsigned", "Position Accuracy", "NoValidator"),
     bitfield("lon", 28, "signed", "Longitude", "NoValidator"),
     bitfield("lat", 27, "signed", "Latitude", "NoValidator"),
     bitfield("course", 12, "unsigned", "Course Over Ground", "NoValidator"),
     bitfield("heading", 9, "unsigned", "True Heading", "NoValidator"),
     bitfield("second", 6, "unsigned", "Time Stamp", "NoValidator"),
     bitfield("regional", 2, "unsigned", "Regional reserved", "NoValidator"),
     bitfield("cs", 1, "unsigned", "CS Unit", "NoValidator"),
     bitfield("display", 1, "unsigned", "Display flag", "NoValidator"),
     bitfield("dsc", 1, "unsigned", "DSC flag", "NoValidator"),
     bitfield("band", 1, "unsigned", "Band flag", "NoValidator"),
     bitfield("msg22", 1, "unsigned", "Message 22 flag", "NoValidator"),
     bitfield("assigned", 1, "unsigned", "Assigned", "NoValidator"),
     bitfield("raim", 1, "unsigned", "RAIM flag", "NoValidator"),
     bitfield("radio", 20, "unsigned", "Radio status", "NoValidator") >>

\* lines 448-477
type19 ==
  << bitfield("reserved", 8, "unsigned", "Regional reserved", "NoValidator"),
     bitfield("speed", 10, "unsigned", "Speed Over Ground", "NoValidator"),
     bitfield("accuracy", 1, "unsigned", "Position Accuracy", "NoValidator"),
     bitfield("lon", 28, "signed", "Longitude", "NoValidator"),
     bitfield("lat", 27, "signed", "Latitude", "NoValidator"),
     bitfield("course", 12, "unsigned", "Course Over Ground", "NoValidator"),
     bitfield("heading", 9, "unsigned", "True Heading", "NoValidator"),
     bitfield("second", 6, "unsigned", "Time Stamp", "NoValidator"),
     bitfield("regional", 4, "unsigned", "Regional reserved", "NoValidator"),
     bitfield("shipname", 120, "string", "Vessel Name", "NoValidator"),
     bitfield("shiptype", 8, "unsigned", "Ship Type", "ValidShiptype"),
     bitfield("to_bow", 9, "unsigned", "Dimension to Bow", "NoValidator"),
     bitfield("to_stern", 9, "unsigned", "Dimension to Stern", "NoValidator"),
     bitfield("to_port", 6, "unsigned", "Dimension to Port", "NoValidator"),
     bitfield("to_starbord", 6, "unsigned", "Dimension to Starboard", "NoValidator"),
     bitfield("epfd", 4, "unsigned", "Position Fix Type", "ValidEpfd"),
     bitfield("assigned", 1, "unsigned", "Assigned", "NoValidator"),
     bitfield("raim", 1, "unsigned", "RAIM flag", "NoValidator"),
     bitfield("radio", 20, "unsigned", "Radio status", "NoValidator") >>

\* lines 479-497
type20 ==
  << spare(2),
     bitfield("offset1", 12, "unsigned", "Offset number", "NoValidator"),
     bitfield("number1", 4, "unsigned", "Reserved slots", "NoValidator"),
     bitfield("timeout1", 3, "unsigned", "Time-out", "NoValidator"),
     bitfield("increment1", 11, "unsigned", "Increment", "NoValidator"),
     bitfield("offset2", 12, "unsigned", "Offset number 2", "NoValidator"),
     bitfield("number2", 4, "unsigned", "Reserved slots", "NoValidator"),
     bitfield("timeout2", 3, "unsigned", "Time-out", "NoValidator"),
     bitfield("increment2", 11, "unsigned", "Increment", "NoValidator"),
     bitfield("offset3", 12, "unsigned", "Offset number 3", "NoValidator"),
     bitfield("number3", 4, "unsigned", "Reserved slots", "NoValidator"),
     bitfield("timeout3", 3, "unsigned", "Time-out", "NoValidator"),
     bitfield("increment3", 11, "unsigned", "Increment", "NoValidator"),
     bitfield("offset4", 12, "unsigned", "Offset number 4", "NoValidator"),
     bitfield("number4", 4, "unsigned", "Reserved slots", "NoValidator"),
     bitfield("timeout4", 3, "unsigned", "Time-out", "NoValidator"),
     bitfield("increment4", 11, "unsigned", "Increment", "NoValidator") >>

\* lines 534-558
type21 ==
  << bitfield("type", 5, "unisigned", "Aid type", "NoValidator"),
     bitfield("name", 120, "string", "Name", "NoValidator"),
     bitfield("accuracy", 1, "unsigned", "Position Accuracy", "NoValidator"),
     bitfield("lon", 28, "signed", "Longitude", "NoValidator"),
     bitfield("lat", 27, "signed", "Latitude", "NoValidator"),
     bitfield("to_bow", 9, "unsigned", "Dimension to Bow", "NoValidator"),
     bitfield("to_stern", 9, "unsigned", "Dimension to Stern", "NoValidator"),
     bitfield("to_port", 6, "unsigned", "Dimension to Port", "NoValidator"),
     bitfield("to_starboard", 6, "unsigned", "Dimension to Starboard", "NoValidator"),
     bitfield("epfd", 4, "unsigned", "Position Fix Type", "ValidEpfd"),
     bitfield("second", 6, "unsigned", "UTC Second", "NoValidator"),
     bitfield("off_position", 1, "unsigned", "Off-Position Indicator", "NoValidator"),
     bitfield("regional", 8, "unsigned", "Regional reserved", "NoValidator"),
     bitfield("raim", 1, "unsigned", "RAIM flag", "NoValidator"),
     bitfield("virtual_aid", 1, "unsigned", "Virtual-aid flag", "NoValidator"),
     bitfield("assigned", 1, "unsigned", "Assigned-mode flag", "NoValidator"),
     spare(2),
     bitfield("name", 88, "string", "Name Extension", "NoValidator") >>

\* lines 560-579
type22 ==
  << spare(2),
     bitfield("channel_a", 12, "unsigned", "Channel A", "NoValidator"),
     bitfield("channel_b", 12, "unsigned", "Channel B", "NoValidator"),
     bitfield("mode", 4, "unsigned", "Tx/Rx mode", "NoValidator"),
     bitfield("power", 1, "unsigned", "Power", "NoValidator"),
     bitfield("ne_lon", 18, "unsigned", "NE Longitude", "NoValidator"),
     bitfield("ne_lat", 17, "unsigned", "NE Latitude", "NoValidator"),
     bitfield("sw_lon", 18, "unsigned", "SW Longitude", "NoValidator"),
     bitfield("sw_lat", 17, "unsigned", "SW Latitude", "NoValidator"),
     bitfield("addressed", 1, "unsigned", "Addressed", "NoValidator"),
     bitfield("band_a", 1, "unsigned", "Channel A Band", "NoValidator"),
     bitfield("band_a", 1, "unsigned", "Channel A Band", "NoValidator"),
     bitfield("zonesize", 3, "unsigned", "Zone size", "NoValidator"),
     spare(23) >>

\* lines 581-584
type24a ==
  << bitfield("shipname", 120, "string", "Vessel Name", "NoValidator"),
     spare(8) >>

\* lines 587-594
type24b1 ==
  << bitfield("callsign", 42, "string", "Call Sign", "NoValidator"),
     bitfield("to_bow", 9, "unsigned", "Dimension to Bow", "NoValidator"),
     bitfield("to_stern", 9, "unsigned", "Dimension to Stern", "NoValidator"),
     bitfield("to_port", 6, "unsigned", "Dimension to Port", "NoValidator"),
     bitfield("to_starbord", 6, "unsigned", "Dimension to Starboard", "NoValidator"),
     spare(8) >>

\* lines 596-599
type24b2 ==
  << bitfield("mothership_mmsi", 30, "unsigned", "Mothership MMSI", "NoValidator"),
     spare(8) >>

\* lines 601-607
type24b ==
  << bitfield("shiptype", 8, "unsigned", "Ship Type", "ValidShiptype"),
     bitfield("vendorid", 42, "string", "Vendor ID", "NoValidator"),
     dispatch("mmsi", <<"type24b1", "type24b2">>, "ComputeMmsi98") >>

\* lines 609-612
type24 ==
  << bitfield("partno", 2, "unsigned", "Part Number", "NoValidator"),
     dispatch("partno", <<"type24a", "type24b">>, "ComputeIdentity") >>

\* lines 614-625
aivdm_decode ==
  << bitfield("msgtype", 6, "unsigned", "Message Type", "ValidMsgtype"),
     bitfield("repeat", 2, "unsigned", "Repeat Indicator", "NoValidator"),
     bitfield("mmsi", 30, "unsigned", "MMSI", "NoValidator"),
     dispatch("msgtype", <<"None", "cnb", "cnb", "cnb", "type4", "type5", "type6", "type7", "type8", "type9", "type10", "type4", "type12", "type7", "type14", "type15", "type16", "type17", "type18", "type19", "type20", "type21", "type22", "None", "type24">>, "ComputeIdentity") >>

-----------------------------------------------------------------------------
(* Instruction tables that are not part of the catalog: an input to the    *)
(* interpreter in which a field follows a dispatch.                        *)

probe_a ==
  << bitfield("a", 6, "unsigned", "A", "NoValidator") >>

probe_b ==
  << bitfield("b", 10, "signed", "B", "NoValidator"),
     spare(2) >>

probe ==
  << bitfield("sel", 2, "unsigned", "Selector", "NoValidator"),
     dispatch("sel", <<"probe_a", "probe_b">>, "ComputeIdentity"),
     bitfield("tail", 4, "unsigned", "Tail", "NoValidator") >>

\* a table by its name
Schema(n) ==
  CASE n = "cnb" -> cnb
    [] n = "type4" -> type4
    [] n = "type5" -> type5
    [] n = "type6" -> type6
    [] n = "type7" -> type7
    [] n = "type8" -> type8
    [] n = "type9" -> type9
    [] n = "type10" -> type10
    [] n = "type12" -> type12
    [] n = "type14" -> type14
    [] n = "type15" -> type15
    [] n = "type16" -> type16
    [] n = "type17" -> type17
    [] n = "type18" -> type18
    [] n = "type19" -> type19
    [] n = "type20" -> type20
    [] n = "type21" -> type21
    [] n = "type22" -> type22
    [] n = "type24a" -> type24a
    [] n = "type24b1" -> type24b1
    [] n = "type24b2" -> type24b2
    [] n = "type24b" -> type24b
    [] n = "type24" -> type24
    [] n = "aivdm_decode" -> aivdm_decode
    [] n = "probe_a" -> probe_a
    [] n = "probe_b" -> probe_b
    [] n = "probe" -> probe

-----------------------------------------------------------------------------
(* Values: a Python value is a record of one shape whatever its type.      *)

Unbound   == [k |-> "unbound", i |-> 0, s |-> <<>>, b |-> BitVectorEmpty]
IntVal(n) == [k |-> "int", i |-> n, s |-> <<>>, b |-> BitVectorEmpty]
StrVal(s) == [k |-> "str", i |-> 0, s |-> s, b |-> BitVectorEmpty]
RawVal(b) == [k |-> "raw", i |-> 0, s |-> <<>>, b |-> b]

\* values = {}
NoValues == [n \in {} |-> Unbound]

\* validators that accept every value
ValidateAlways(tag, n) == TRUE

\* the validator lambdas of the tables
Validate(tag, n) ==
  CASE tag = "ValidMsgtype"  -> n > 0 /\ n <= 24 /\ n # 23
    [] tag = "ValidShiptype" -> n >= 0 /\ n <= 99
    [] tag = "ValidEpfd"     -> n >= 0 /\ n <= 8

DigitChar == <<"0", "1", "2", "3", "4", "5", "6", "7", "8", "9">>

\* `m`: the decimal text of an int
RECURSIVE Repr(_)
Repr(m) ==
  IF m < 0 THEN <<"-">> \o Bind(-m, LAMBDA n : Repr(n))
  ELSE IF m < 10 THEN <<DigitChar[m + 1]>>
  ELSE Bind(m \div 10, LAMBDA n : Repr(n)) \o <<DigitChar[(m % 10) + 1]>>

\* s[:n]
Prefix(s, n) == SubSeq(s, 1, IF Len(s) < n THEN Len(s) ELSE n)

\* the compute hook of type24b with only the first character compared
Mmsi98FirstChar(m) == IF Prefix(Repr(m), 1) = <<"9">> THEN 1 ELSE 0

\* lambda m: 1 if `m`[:2]=='98' else 0
Mmsi98(m) == IF Prefix(Repr(m), 2) = <<"9", "8">> THEN 1 ELSE 0

\* inst.compute(v); the default hook is lambda x: x
Compute(tag, v) ==
  IF tag = "ComputeMmsi98" THEN IntVal(Mmsi98(v.i)) ELSE v

-----------------------------------------------------------------------------
(* aivdm_unpack                                                            *)

\* the 64 characters of the text alphabet; character 39, the backquote,
\* cannot be written in a TLA+ string and is spelled out
AisText ==
  << "@", "A", "B", "C", "D", "E", "F", "G", "H", "I", "J", "K", "L", "M",
     "N", "O", "P", "Q", "R", "S", "T", "U", "V", "W", "X", "Y", "Z", "[",
     "\\", "]", "^", "-", " ", "!", "\"", "#", "$", "%", "&", "backquote", "(",
     ")",
     "*", "+", ",", "-", ".", "/", "0", "1", "2", "3", "4", "5", "6", "7",
     "8", "9", ":", ";", "<", "=", ">", "?" >>

\* value.replace("@", " ")
ReplaceAt(s) == [k \in 1..Len(s) |-> IF s[k] = "@" THEN " " ELSE s[k]]

\* value.rstrip(): the table holds no white space but the blank
RStrip(s) ==
  LET kept == {k \in 1..Len(s) : \A j \in k..Len(s) : s[j] = " "}
  IN  SubSeq(s, 1, Len(s) - Cardinality(kept))

\* for i in range(inst.width/6): value += table[data.ubits(offset + 6*i, 6)]
\* The rounds do not depend on one another: round i reads six bits at
\* offset + 6*i, and the first round whose ubits raises ends the loop.
StringLoop(data, offset, n) ==
  Bind([i \in 1..n |-> ubits(data, offset + 6 * (i - 1), 6)],
       LAMBDA u :
         IF \E i \in 1..n : u[i].err # "none"
         THEN [err |-> u[CHOOSE i \in 1..n : u[i].err # "none"].err,
               s |-> <<>>]
         ELSE [err |-> "none", s |-> [i \in 1..n |-> AisText[u[i].v + 1]]])

\* data.bits[8 * k:], the cursor itself taken for the byte index
SliceFromCursor(bits, k) ==
  IF 8 * k >= Len(bits) THEN <<>> ELSE SubSeq(bits, 8 * k + 1, Len(bits))

\* data.bits[k:]
SliceFrom(bits, k) ==
  IF k >= Len(bits) THEN <<>> ELSE SubSeq(bits, k + 1, Len(bits))

\* the branches on inst.type; a type that is none of the four leaves the
\* local variable value as the previous field of this call left it
Extract(data, offset, inst, value) ==
  CASE inst.type = "unsigned" ->
         Bind(ubits(data, offset, inst.width),
              LAMBDA u : [err |-> u.err, value |-> IntVal(u.v)])
    [] inst.type = "signed" ->
         Bind(sbits(data, offset, inst.width),
              LAMBDA u : [err |-> u.err, value |-> IntVal(u.v)])
    [] inst.type = "string" ->
         Bind(StringLoop(data, offset, inst.width \div 6),
              LAMBDA r : [err |-> r.err,
                          value |-> StrVal(RStrip(ReplaceAt(r.s)))])
    [] inst.type = "raw" ->
         [err |-> "none",
          value |-> RawVal(BitVectorOf(SliceFrom(data.bits, offset \div 8),
                                       data.bitlen - offset))]
    [] OTHER ->
         [err |-> IF value.k = "unbound" THEN "UnboundLocalError" ELSE "none",
          value |-> value]

\* lst[i] with Python's negative indices; 0 when i is out of range
PyIndex(n, i) ==
  IF i >= 0 /\ i < n THEN i + 1
  ELSE IF i < 0 /\ i >= -n THEN n + i + 1
  ELSE 0

\* One entry of the record of what the interpreter did (not in the code):
\* a field with the cursor it was extracted at, or a dispatch with the index
\* computed, the table chosen, the cursor the recursive call ended at
\* (subend), the cursor the loop goes on with (after) and the entries of the
\* recursive call (sub).
FieldEntry(inst, at) ==
  [ev |-> "field", name |-> inst.name, at |-> at, width |-> inst.width,
   i |-> 0, table |-> "", subend |-> 0, after |-> at + inst.width,
   sub |-> <<>>]

DispatchEntry(inst, at, i, table, subend, after, sub) ==
  [ev |-> "dispatch", name |-> inst.fieldname, at |-> at, width |-> 0,
   i |-> i, table |-> table, subend |-> subend, after |-> after, sub |-> sub]

\* raise e from an instruction of kind k
Raise(st, e, k) == [st EXCEPT !.err = e, !.raisedIn = k]

\* the cursor after a dispatch, were the cursor of the recursive call taken
OffsetAfterDispatchAdopted(offset, subend) == subend

\* the cursor after a dispatch: aivdm_unpack returns cooked alone, and the
\* loop goes on with its own offset
OffsetAfterDispatch(offset, subend) == offset

RECURSIVE aivdm_unpack(_, _, _, _)

\* the dispatch branch once the table is chosen; r is what the recursive
\* call gave
AfterRecursion(st, inst, i, table, r) ==
  LET after == OffsetAfterDispatch(st.offset, r.offset)
      e     == DispatchEntry(inst, st.offset, i, table, r.offset, after,
                             r.trace)
  IN  IF r.err # "none"
      THEN [st EXCEPT !.err = r.err, !.values = r.values,
                      !.failed = r.failed, !.raisedIn = r.raisedIn,
                      !.trace = @ \o <<e>>]
      ELSE [st EXCEPT !.cooked = @ \o r.cooked, !.values = r.values,
                      !.offset = after, !.trace = @ \o <<e>>]

\* the bitfield branch once the value is extracted; x is [err, value]
AfterExtract(st, inst, x) ==
  LET vals == (inst.name :> x.value) @@ st.values
  IN  IF x.err # "none" THEN Raise(st, x.err, "bitfield")
      ELSE IF inst.validator # "NoValidator"
              /\ ~Validate(inst.validator, x.value.i)
      THEN [st EXCEPT !.err = "AISUnpackingException",
                      !.raisedIn = "bitfield",
                      !.values = vals, !.value = x.value,
                      !.failed = [name |-> inst.name, value |-> x.value]]
      ELSE [st EXCEPT
              !.values = vals,
              !.value = x.value,
              !.offset = @ + inst.width,
              !.cooked = @ \o <<[name |-> inst.name,
                                 value |-> x.value,
                                 type |-> inst.type,
                                 legend |-> inst.legend,
                                 mutable |-> TRUE]>>,
              !.trace = @ \o <<FieldEntry(inst, st.offset)>>]

\* One round of "for inst in instructions": the state after the body has run
\* for inst.  A round after a break or a raise leaves everything as it is.
UnpackStep(data, inst, st) ==
  IF st.err # "none" \/ st.broke THEN st
  ELSE IF st.offset >= data.bitlen THEN [st EXCEPT !.broke = TRUE]
  ELSE
    CASE inst.kind = "spare" -> [st EXCEPT !.offset = @ + inst.width]
      [] inst.kind = "dispatch" ->
           IF inst.fieldname \notin DOMAIN st.values
           THEN Raise(st, "KeyError", "dispatch")
           ELSE
             LET c == Compute(inst.compute, st.values[inst.fieldname])
                 j == IF c.k = "int" THEN PyIndex(Len(inst.subtypes), c.i)
                      ELSE 0
             IN  IF c.k # "int" THEN Raise(st, "TypeError", "dispatch")
                 ELSE IF j = 0 THEN Raise(st, "IndexError", "dispatch")
                 ELSE IF inst.subtypes[j] = "None"
                 THEN Raise(st, "TypeError", "dispatch")
                 ELSE Bind(aivdm_unpack(data, st.offset, st.values,
                                        Schema(inst.subtypes[j])),
                           LAMBDA r : AfterRecursion(st, inst, c.i,
                                                     inst.subtypes[j], r))
      [] inst.kind = "bitfield" ->
           Bind(Extract(data, st.offset, inst, st.value),
                LAMBDA x : AfterExtract(st, inst, x))

\* The rounds for instructions lo..hi, in order.  The range is run as its
\* first half followed by its second half, which is the same sequence of
\* rounds.
RECURSIVE UnpackLoop(_, _, _, _, _)
UnpackLoop(data, insts, lo, hi, st) ==
  IF lo > hi THEN st
  ELSE IF lo = hi THEN UnpackStep(data, insts[lo], st)
  ELSE Bind(UnpackLoop(data, insts, lo, (lo + hi) \div 2, st),
            LAMBDA st1 : UnpackLoop(data, insts, ((lo + hi) \div 2) + 1, hi,
                                    st1))

\* The result: err ("none": the call returned), cooked (the list returned),
\* values (the dictionary as the call left it), failed (the exception's
\* fieldname and value), and, not in the code, offset (the cursor when the
\* loop ended), trace and raisedIn (the kind of the instruction that raised).
aivdm_unpack(data, offset, values, instructions) ==
  Bind(UnpackLoop(data, instructions, 1, Len(instructions),
         [err |-> "none", cooked |-> <<>>, values |-> values,
          offset |-> offset, value |-> Unbound, trace |-> <<>>,
          failed |-> [name |-> "", value |-> Unbound],
          raisedIn |-> "", broke |-> FALSE]),
       LAMBDA st :
         [err |-> st.err, cooked |-> st.cooked, values |-> st.values,
          offset |-> st.offset, trace |-> st.trace, failed |-> st.failed,
          raisedIn |-> st.raisedIn])

-----------------------------------------------------------------------------
(* parse_ais_messages, lines 758-779: the field groups and the extension    *)
(* merge.  An entry of cooked is a list as aivdm_unpack appended it         *)
(* (mutable) or the tuple the grouping pass builds (not mutable).           *)

\* a formatter of field_groups is its format string: one %02d per value,
\* each followed by the text given here
field_groups ==
  << [offset |-> 3,
      template |-> <<"year", "month", "day", "hour", "minute", "second">>,
      label |-> "time", legend |-> "Timestamp",
      formatter |-> <<":", ":", "T", ":", ":", "Z">>],
     [offset |-> 13,
      template |-> <<"month", "day", "hour", "minute", "second">>,
      label |-> "eta", legend |-> "Estimated Time of Arrival",
      formatter |-> <<":", "T", ":", ":", "Z">>] >>

\* "%02d" % n
Pad2(n) == IF Len(Repr(n)) < 2 THEN <<"0">> \o Repr(n) ELSE Repr(n)

\* format % (values): the values in order, each as %02d and its text
RECURSIVE Format(_, _)
Format(formatter, vals) ==
  IF formatter = <<>> THEN <<>>
  ELSE Pad2(vals[1].i) \o <<formatter[1]>>
       \o Format(Tail(formatter), Tail(vals))

\* lst[a:b] with 0 <= a <= b
Slice(lst, a, b) ==
  IF a >= Len(lst) THEN <<>>
  ELSE SubSeq(lst, a + 1, IF b > Len(lst) THEN Len(lst) ELSE b)

\* an entry of field_groups passed over
GroupStepSkipped(st, g) == st

\* the body of "for (offset, template, label, legend, formatter) in
\* field_groups"; %d of a value that is no number raises TypeError
GroupStep(st, g) ==
  IF st.err # "none" THEN st
  ELSE
    LET segment == Slice(st.cooked, g.offset, g.offset + Len(g.template))
        names   == [k \in DOMAIN segment |-> segment[k].name]
        vals    == [k \in DOMAIN segment |-> segment[k].value]
    IN  IF names # g.template THEN st
        ELSE IF \E k \in DOMAIN vals : vals[k].k # "int"
        THEN [st EXCEPT !.err = "TypeError"]
        ELSE [st EXCEPT !.cooked =
                Slice(@, 0, g.offset)
                \o <<[name |-> g.label,
                      value |-> StrVal(Format(g.formatter, vals)),
                      type |-> "string", legend |-> g.legend,
                      mutable |-> FALSE]>>
                \o Slice(@, g.offset + Len(g.template), Len(@))]

RECURSIVE GroupLoop(_, _)
GroupLoop(st, k) ==
  IF k > Len(field_groups) THEN st
  ELSE Bind(GroupStep(st, field_groups[k]), LAMBDA st1 : GroupLoop(st1, k + 1))

\* the body of "for j in range(i+1, len(cooked))": cooked[j] and cooked[i]
\* raise IndexError past the end of the list as it is now, and += on the
\* value of a tuple raises TypeError
MergeInnerStep(st, i, j) ==
  IF st.err # "none" THEN st
  ELSE IF j >= Len(st.cooked) THEN [st EXCEPT !.err = "IndexError"]
  ELSE IF st.cooked[j + 1].type # "string" THEN st
  ELSE IF i >= Len(st.cooked) THEN [st EXCEPT !.err = "IndexError"]
  ELSE IF st.cooked[i + 1].name # st.cooked[j + 1].name THEN st
  ELSE IF ~st.cooked[i + 1].mutable THEN [st EXCEPT !.err = "TypeError"]
  ELSE [st EXCEPT
          !.cooked = Slice([@ EXCEPT ![i + 1].value =
                              StrVal(@.s \o st.cooked[j + 1].value.s)],
                           0, j)
                     \o Slice(@, j + 1, Len(@)),
          !.retry = TRUE]

\* j runs over the range fixed when the inner loop began
RECURSIVE MergeInner(_, _, _, _)
MergeInner(st, i, j, hi) ==
  IF j >= hi THEN st
  ELSE Bind(MergeInnerStep(st, i, j),
            LAMBDA st1 : MergeInner(st1, i, j + 1, hi))

\* the body of "for i in range(len(cooked))"
MergeOuterStep(st, i) ==
  IF st.err # "none" THEN st
  ELSE IF i >= Len(st.cooked) THEN [st EXCEPT !.err = "IndexError"]
  ELSE IF st.cooked[i + 1].type # "string" THEN st
  ELSE MergeInner(st, i, i + 1, Len(st.cooked))

\* i runs over the range fixed when the outer loop began
RECURSIVE MergeOuter(_, _, _)
MergeOuter(st, i, hi) ==
  IF i >= hi THEN st
  ELSE Bind(MergeOuterStep(st, i), LAMBDA st1 : MergeOuter(st1, i + 1, hi))

\* while retry: retry = False; for i in range(len(cooked)): ...
RECURSIVE ExtensionMerge(_)
ExtensionMerge(st) ==
  IF st.err # "none" \/ ~st.retry THEN st
  ELSE Bind(MergeOuter([st EXCEPT !.retry = FALSE], 0, Len(st.cooked)),
            LAMBDA st1 : ExtensionMerge(st1))

\* lines 760-779 on the list aivdm_unpack returned: [err, cooked]
PostProcess(cooked) ==
  Bind(GroupLoop([err |-> "none", cooked |-> cooked, retry |-> TRUE], 1),
       LAMBDA st0 :
         Bind(ExtensionMerge(st0),
              LAMBDA st : [err |-> st.err, cooked |-> st.cooked]))

-----------------------------------------------------------------------------
(* parse_ais_messages(source), scaled = False.  A line is the sequence of   *)
(* its character codes, the newline included.  drv holds the locals        *)
(* payload and values, the number pos of lines read, the records yielded   *)
(* (out), the status of the generator ("running", "returned" after the     *)
(* end of input, "raised" after an exception left it, with err) and, not   *)
(* in the code, log: one entry per line read.                              *)

Comma   == 44
Hash    == 35
Newline == 10

\* line.split(","): the texts between the commas
Split(line) ==
  LET commas == {k \in 1..Len(line) : line[k] = Comma}
      nth(i) == IF i = 0 THEN 0
                ELSE IF i > Cardinality(commas) THEN Len(line) + 1
                ELSE CHOOSE k \in commas :
                       Cardinality({j \in commas : j < k}) = i - 1
  IN  [i \in 1..(Cardinality(commas) + 1) |->
         SubSeq(line, nth(i - 1) + 1, nth(i) - 1)]

\* no line taken for a comment
IsCommentNever(line) == FALSE

\* line.startswith("#")
IsComment(line) == Len(line) >= 1 /\ line[1] = Hash

\* a < b on two str: the first difference decides, a proper prefix is less
RECURSIVE StrLess(_, _)
StrLess(a, b) ==
  IF b = <<>> THEN FALSE
  ELSE IF a = <<>> THEN TRUE
  ELSE IF a[1] # b[1] THEN a[1] < b[1]
  ELSE StrLess(Tail(a), Tail(b))

FragmentLess(fragment, expect) == StrLess(fragment, expect)

NotStarted ==
  [pos |-> 0, payload |-> <<>>, values |-> NoValues, out |-> <<>>,
   status |-> "running", err |-> "none", log |-> <<>>]

\* an entry of log: what the round did (kind), payload before and after
\* the line was taken in, and the values dictionary handed to aivdm_unpack
LogEntry(kind, before, after, valuesIn) ==
  [kind |-> kind, before |-> before, payload |-> after, valuesIn |-> valuesIn]

\* the generator after a round that ends in "continue"
Continue(kind, payload) ==
  [drv EXCEPT !.pos = @ + 1, !.payload = payload,
              !.log = @ \o <<LogEntry(kind, drv.payload, payload, NoValues)>>]

\* the exception caught and the loop gone on to the next line
RaisedCaught(e, payload) ==
  [drv EXCEPT !.pos = @ + 1, !.payload = payload,
              !.log = @ \o <<LogEntry("raise", drv.payload, payload,
                                      drv.values)>>]

\* the generator after an exception left the round
Raised(e, payload) ==
  [drv EXCEPT !.pos = @ + 1, !.payload = payload, !.status = "raised",
              !.err = e,
              !.log = @ \o <<LogEntry("raise", drv.payload, payload,
                                      drv.values)>>]

\* lines 745-750 without the test of line 748: payload is never cleared
AssembleNoRestart(line) ==
  LET fields == Split(line)
  IN  IF Len(fields) < 6
      THEN [err |-> "IndexError", expect |-> <<>>, fragment |-> <<>>,
            payload |-> drv.payload]
      ELSE [err |-> "none", expect |-> fields[2], fragment |-> fields[3],
            payload |-> drv.payload \o fields[6]]

\* lines 745-750: fields, expect, fragment, and payload with the segment
\* taken in; a line of fewer than six fields raises IndexError
Assemble(line) ==
  LET fields == Split(line)
  IN  IF Len(fields) < 6
      THEN [err |-> "IndexError", expect |-> <<>>, fragment |-> <<>>,
            payload |-> drv.payload]
      ELSE [err |-> "none", expect |-> fields[2], fragment |-> fields[3],
            payload |-> (IF fields[3] = <<49>> THEN <<>> ELSE drv.payload)
                        \o fields[6]]

\* lines 753-757: the bit vector of payload, unpacked
Decode(payload) ==
  Bind(from_sixbit(BitVectorEmpty, payload),
       LAMBDA bits : aivdm_unpack(bits, 0, drv.values, aivdm_decode))

\* the dictionary left as aivdm_unpack filled it
ValuesKept(values) == values

\* line 788, values = {}: the dictionary the next round starts with
ValuesAfterYield(values) == NoValues

Running == drv.status = "running"

\* readline gave nothing: return
Eof ==
  /\ Running /\ drv.pos = Len(source)
  /\ drv' = [drv EXCEPT !.status = "returned"]
  /\ UNCHANGED <<source, bitsVars, unpackVars, postVars, msg1Vars>>

\* a comment line: continue
Comment ==
  /\ Running /\ drv.pos < Len(source)
  /\ IsComment(source[drv.pos + 1])
  /\ drv' = Continue("comment", drv.payload)
  /\ UNCHANGED <<source, bitsVars, unpackVars, postVars, msg1Vars>>

\* a line whose fragment is less than expect: continue
Accumulate ==
  /\ Running /\ drv.pos < Len(source)
  /\ ~IsComment(source[drv.pos + 1])
  /\ \E a \in {Assemble(source[drv.pos + 1])} :
       /\ a.err = "none"
       /\ FragmentLess(a.fragment, a.expect)
       /\ drv' = Continue("accumulate", a.payload)
  /\ UNCHANGED <<source, bitsVars, unpackVars, postVars, msg1Vars>>

\* a line that completes a payload: decode, post-process, values = {},
\* yield cooked
Emit ==
  /\ Running /\ drv.pos < Len(source)
  /\ ~IsComment(source[drv.pos + 1])
  /\ \E a \in {Assemble(source[drv.pos + 1])} :
       /\ a.err = "none"
       /\ ~FragmentLess(a.fragment, a.expect)
       /\ \E r \in {Decode(a.payload)} :
            /\ r.err = "none"
            /\ \E c \in {PostProcess(r.cooked)} :
                 /\ c.err = "none"
                 /\ drv' = [drv EXCEPT
                       !.pos = @ + 1, !.payload = a.payload,
                       !.values = ValuesAfterYield(r.values),
                       !.out = @ \o <<c.cooked>>,
                       !.log = @ \o <<LogEntry("emit", drv.payload,
                                               a.payload, drv.values)>>]
  /\ UNCHANGED <<source, bitsVars, unpackVars, postVars, msg1Vars>>

\* a line on which an exception leaves the generator
Fail ==
  /\ Running /\ drv.pos < Len(source)
  /\ ~IsComment(source[drv.pos + 1])
  /\ \E a \in {Assemble(source[drv.pos + 1])} :
       \/ /\ a.err # "none"
          /\ drv' = [drv EXCEPT !.pos = @ + 1, !.status = "raised",
                                !.err = a.err,
                                !.log = @ \o <<LogEntry("split", drv.payload,
                                                        drv.payload,
                                                        NoValues)>>]
       \/ /\ a.err = "none"
          /\ ~FragmentLess(a.fragment, a.expect)
          /\ \E r \in {Decode(a.payload)} :
               \/ /\ r.err # "none"
                  /\ drv' = Raised(r.err, a.payload)
               \/ /\ r.err = "none"
                  /\ \E c \in {PostProcess(r.cooked)} :
                       /\ c.err # "none"
                       /\ drv' = Raised(c.err, a.payload)
  /\ UNCHANGED <<source, bitsVars, unpackVars, postVars, msg1Vars>>

-----------------------------------------------------------------------------
(* ais/ais_msg_1.py: encode and decode of the class A position report.     *)
(* A bit vector of aisutils.BitVector is the sequence of its bits, first   *)
(* bit first.  A Decimal is a fraction [n, d] with d > 0.  The helpers of  *)
(* aisutils (BitVector, binary) are not part of the sources at hand; they  *)
(* are modelled by what their names and their use say.                     *)

Dec(n, d) == [n |-> n, d |-> d]

\* a / b rounded towards zero, as int() of a Decimal does
Trunc(a, b) == IF a >= 0 THEN a \div b ELSE -((-a) \div b)

\* int(Decimal(x) * Decimal(k)); the denominator is divided where it can
\* be, which keeps the product within 32 bits
IntOfScaled(x, k) ==
  IF x.d % k = 0 THEN Trunc(x.n, x.d \div k) ELSE Trunc(x.n * k, x.d)

\* BitVector(intVal=n), n >= 0: the binary digits of n, a single 0 for 0
RECURSIVE BitVectorIntVal(_)
BitVectorIntVal(n) ==
  IF n < 2 THEN <<n>>
  ELSE Bind(n \div 2, LAMBDA h : BitVectorIntVal(h) \o <<n % 2>>)

\* binary.setBitVectorSize(bv, size): zero bits put in front up to size
setBitVectorSize(b, size) ==
  IF Len(b) >= size THEN b ELSE [k \in 1..(size - Len(b)) |-> 0] \o b

\* binary.bvFromSignedInt(v, size): the two's complement of v in size bits
bvFromSignedInt(v, size) == [k \in 1..size |-> BitAt(v, size - k)]

\* binary.signedIntFromBV(bv)
signedIntFromBV(b) ==
  IF b[1] = 0 THEN BitsToNat(b) ELSE BitsToNat(b) - Pow2(Len(b))

\* binary.joinBV(bvList)
RECURSIVE joinBV(_)
joinBV(bvList) ==
  IF bvList = <<>> THEN <<>>
  ELSE IF Len(bvList) = 1 THEN bvList[1]
  ELSE Bind(<<SubSeq(bvList, 1, Len(bvList) \div 2),
              SubSeq(bvList, (Len(bvList) \div 2) + 1, Len(bvList))>>,
            LAMBDA h : joinBV(h[1]) \o joinBV(h[2]))

\* bv[a:b+1]
BvSliceInclusive(b, lo, hi) == Slice(b, lo, hi + 1)

\* bv[a:b]
BvSlice(b, lo, hi) == Slice(b, lo, hi)

\* int(bv)
BvInt(b) == BitsToNat(b)

\* binary.setBitVectorSize(BitVector(intVal=n), size)
UIntBV(n, size) == setBitVectorSize(BitVectorIntVal(n), size)

TrueBV  == <<1>>
FalseBV == <<0>>

\* the keys encode reads with params[...] and no test for their presence
RequiredKeys ==
  {"UserID", "PositionAccuracy", "RAIM", "state_syncstate",
   "state_slottimeout", "state_slotoffset"}

\* params[key] if the key is in params, else 0
ParamOrZero(p, key, default) == IF key \in DOMAIN p THEN p[key] ELSE 0

\* params[key] if the key is in params, else the value encode puts in
Param(p, key, default) == IF key \in DOMAIN p THEN p[key] ELSE default

\* encode(params): [err, bv]; a key read and not there raises KeyError
encode(p) ==
  IF ~(RequiredKeys \subseteq DOMAIN p) THEN [err |-> "KeyError", bv |-> <<>>]
  ELSE
    [err |-> "none",
     bv |-> joinBV(<<
       UIntBV(1, 6),
       UIntBV(Param(p, "RepeatIndicator", 0), 2),
       UIntBV(p["UserID"], 30),
       UIntBV(Param(p, "NavigationStatus", 15), 4),
       bvFromSignedInt(Param(p, "ROT", -128), 8),
       UIntBV(IF "SOG" \in DOMAIN p THEN IntOfScaled(p["SOG"], 10) ELSE 1023,
              10),
       UIntBV(p["PositionAccuracy"], 1),
       bvFromSignedInt(IF "longitude" \in DOMAIN p
                       THEN IntOfScaled(p["longitude"], 600000)
                       ELSE 108600000, 28),
       bvFromSignedInt(IF "latitude" \in DOMAIN p
                       THEN IntOfScaled(p["latitude"], 600000)
                       ELSE 54600000, 27),
       UIntBV(IF "COG" \in DOMAIN p THEN IntOfScaled(p["COG"], 10) ELSE 3600,
              12),
       UIntBV(Param(p, "TrueHeading", 511), 9),
       UIntBV(Param(p, "TimeStamp", 60), 6),
       UIntBV(0, 4),
       UIntBV(0, 1),
       IF p["RAIM"] THEN TrueBV ELSE FalseBV,
       UIntBV(p["state_syncstate"], 2),
       UIntBV(p["state_slottimeout"], 3),
       UIntBV(p["state_slotoffset"], 14) >>)]

\* r['ROT'] read as int(bv[42:50])
DecodeROTUnsigned(b) == BvInt(BvSlice(b, 42, 50))

\* r['ROT'] = binary.signedIntFromBV(bv[42:50])
DecodeROT(b) == signedIntFromBV(BvSlice(b, 42, 50))

\* decode(bv): the dictionary r
decode(b) ==
  [MessageID         |-> 1,
   RepeatIndicator   |-> BvInt(BvSlice(b, 6, 8)),
   UserID            |-> BvInt(BvSlice(b, 8, 38)),
   NavigationStatus  |-> BvInt(BvSlice(b, 38, 42)),
   ROT               |-> DecodeROT(b),
   SOG               |-> Dec(BvInt(BvSlice(b, 50, 60)), 10),
   PositionAccuracy  |-> BvInt(BvSlice(b, 60, 61)),
   longitude         |-> Dec(signedIntFromBV(BvSlice(b, 61, 89)), 600000),
   latitude          |-> Dec(signedIntFromBV(BvSlice(b, 89, 116)), 600000),
   COG               |-> Dec(BvInt(BvSlice(b, 116, 128)), 10),
   TrueHeading       |-> BvInt(BvSlice(b, 128, 137)),
   TimeStamp         |-> BvInt(BvSlice(b, 137, 143)),
   RegionalReserved  |-> 0,
   Spare             |-> 0,
   RAIM              |-> BvInt(BvSlice(b, 148, 149)) # 0,
   state_syncstate   |-> BvInt(BvSlice(b, 149, 151)),
   state_slottimeout |-> BvInt(BvSlice(b, 151, 154)),
   state_slotoffset  |-> BvInt(BvSlice(b, 154, 168))]

NoParams == [k \in {} |-> 0]

Msg1NotRun == [stage |-> "none", err |-> "none", bv |-> <<>>, r |-> NoParams]

-----------------------------------------------------------------------------
(* Payloads handed to the interpreter: messages laid out field by field    *)
(* as <<value, width>> pairs, armored, and cut to every number of          *)
(* characters.                                                             *)

\* the width-bit two's complement digits of v, most significant first
IntBits(v, width) == [k \in 1..width |-> BitAt(v, width - k)]

RECURSIVE FieldsBits(_)
FieldsBits(fs) ==
  IF fs = <<>> THEN <<>>
  ELSE IF Len(fs) = 1 THEN IntBits(fs[1][1], fs[1][2])
  ELSE Bind(<<SubSeq(fs, 1, Len(fs) \div 2),
              SubSeq(fs, (Len(fs) \div 2) + 1, Len(fs))>>,
            LAMBDA h : FieldsBits(h[1]) \o FieldsBits(h[2]))

\* the character whose armor value is v
ArmorChar(v) == IF v < 40 THEN v + 48 ELSE v + 56

\* the armored text of a bit string, zero bits filling the last character
Armor(bits) ==
  LET n      == (Len(bits) + 5) \div 6
      bit(k) == IF k <= Len(bits) THEN bits[k] ELSE 0
  IN  [c \in 1..n |->
         ArmorChar(BitsToNat([j \in 1..6 |-> bit(6 * (c - 1) + j)]))]

\* a text field of n characters: the given six-bit codes, then "@"
TextField(codes, n) ==
  [k \in 1..n |-> <<IF k <= Len(codes) THEN codes[k] ELSE 0, 6>>]

Header(msgtype, mmsi) == << <<msgtype, 6>>, <<1, 2>>, <<mmsi, 30>> >>

\* a class A position report: 168 bits
MsgCnb(msgtype, mmsi) ==
  Header(msgtype, mmsi) \o
  << <<3, 4>>, <<-2, 8>>, <<150, 10>>, <<1, 1>>, <<-73297967, 28>>,
     <<22454675, 27>>, <<345, 12>>, <<41, 9>>, <<35, 6>>, <<0, 2>>,
     <<0, 3>>, <<1, 1>>, <<263365, 19>> >>

\* a safety-related broadcast with a text of five characters
MsgType14(mmsi) ==
  Header(14, mmsi) \o << <<0, 1>> >> \o TextField(<<8, 5, 12, 12, 15>>, 5)

\* a static data report, part A when partno is 0
MsgType24A(mmsi, partno) ==
  Header(24, mmsi) \o << <<partno, 2>> >> \o
  TextField(<<1, 12, 6, 1>>, 20) \o << <<0, 8>> >>

\* a static data report, part B when partno is 1
MsgType24B(mmsi, partno, shiptype) ==
  Header(24, mmsi) \o << <<partno, 2>>, <<shiptype, 8>> >> \o
  TextField(<<22, 5, 14>>, 7) \o TextField(<<3, 1, 12, 12>>, 7) \o
  << <<10, 9>>, <<20, 9>>, <<3, 6>>, <<4, 6>>, <<0, 8>> >>

\* a base station report: 168 bits
MsgType4(mmsi, epfd) ==
  Header(4, mmsi) \o
  << <<2007, 14>>, <<5, 4>>, <<14, 5>>, <<19, 5>>, <<57, 6>>, <<39, 6>>,
     <<1, 1>>, <<-73297967, 28>>, <<22454675, 27>>, <<epfd, 4>>, <<0, 10>>,
     <<1, 1>>, <<263365, 19>> >>

\* static and voyage related data: 424 bits
MsgType5(mmsi, shiptype) ==
  Header(5, mmsi) \o << <<0, 2>>, <<9134270, 30>> >> \o
  TextField(<<3, 1, 12, 12>>, 7) \o TextField(<<14, 1, 13, 5>>, 20) \o
  << <<shiptype, 8>>, <<10, 9>>, <<20, 9>>, <<3, 6>>, <<4, 6>>, <<1, 4>>,
     <<5, 4>>, <<14, 5>>, <<19, 5>>, <<57, 6>>, <<66, 8>> >> \o
  TextField(<<16, 15, 18, 20>>, 20) \o << <<0, 1>>, <<0, 1>> >>

\* a binary addressed message: the data starts at bit 88
MsgType6(mmsi) ==
  Header(6, mmsi) \o
  << <<1, 2>>, <<987654321, 30>>, <<0, 1>>, <<0, 1>>, <<4660, 16>>,
     <<11259375, 24>> >>

\* a binary broadcast message: the data starts at bit 56
MsgType8(mmsi) ==
  Header(8, mmsi) \o << <<0, 2>>, <<4660, 16>>, <<11259375, 24>> >>

\* a DGNSS broadcast: the data starts at bit 77
MsgType17(mmsi) ==
  Header(17, mmsi) \o
  << <<0, 2>>, <<-73297, 18>>, <<22454, 17>>, <<0, 2>>, <<371421, 19>> >>

MmsiSamples == {9, 98, 908, 989, 123456789, 980000001}

Messages ==
  {MsgCnb(t, 123456789) : t \in {0, 1, 3, 23, 25}}
  \cup {MsgType14(m) : m \in {123456789}}
  \cup {MsgType4(123456789, e) : e \in {1, 9}}
  \cup {MsgType5(123456789, t) : t \in {70, 100}}
  \cup {MsgType6(123456789), MsgType8(123456789), MsgType17(123456789)}
  \* an interrogation up to its second slot offset, and the start of an
  \* aid-to-navigation report
  \cup {Header(15, 123456789) \o
          << <<0, 2>>, <<987654321, 30>>, <<5, 6>>, <<100, 12>>, <<0, 2>>,
             <<3, 6>>, <<200, 12>> >>,
        Header(21, 123456789) \o << <<5, 5>>, <<1, 6>> >>}
  \cup {MsgType24A(m, p) : m \in MmsiSamples, p \in {0, 2}}
  \cup {MsgType24B(m, p, s) : m \in MmsiSamples, p \in {1, 3}, s \in {30, 100}}

Cuts(s) == {SubSeq(s, 1, n) : n \in 0..Len(s)}

MaxProbeChars == 2

RECURSIVE Strings(_, _)
Strings(alphabet, n) ==
  IF n = 0 THEN {<<>>}
  ELSE Bind(Strings(alphabet, n - 1),
            LAMBDA shorter :
              shorter \cup {s \o <<c>> : s \in shorter, c \in alphabet})

UnpackInputs ==
  {[schema |-> "aivdm_decode", payload |-> p] :
     p \in UNION {Cuts(Armor(FieldsBits(m))) : m \in Messages}}
  \cup
  \* a safety-related broadcast with all 968 bits of its text field
  {[schema |-> "aivdm_decode",
    payload |-> Armor(FieldsBits(Header(14, 123456789) \o << <<0, 1>> >>
                                 \o TextField(<<8, 5, 12, 12, 15>>, 161)
                                 \o << <<3, 2>> >>))]}
  \cup
  {[schema |-> "probe", payload |-> p] :
     p \in Strings({48, 63, 72, 87, 106, 119}, MaxProbeChars)}

-----------------------------------------------------------------------------
(* SpecUnpack: aivdm_unpack applied, from offset 0 and an empty values     *)
(* dictionary, to an instruction table and the bit vector of a payload.    *)

NoInput == [schema |-> "", payload |-> <<>>]

NoQuery == [op |-> "none", start |-> 0, width |-> 0, err |-> "none", v |-> 0,
            read |-> {}]

NotRun ==
  [run |-> FALSE, bitlen |-> 0,
   res |-> aivdm_unpack(BitVectorEmpty, 0, NoValues, <<>>)]

PostNotRun == [run |-> FALSE, res |-> [err |-> "none", cooked |-> <<>>]]

\* the variables of a specification that is not the one running
BitsIdle   == bv = BitVectorEmpty /\ q = NoQuery /\ sixbit = <<>>
UnpackIdle == uin = NoInput /\ ures = NotRun
PostIdle   == pin = <<>> /\ pres = PostNotRun
DriverIdle == source = <<>> /\ drv = NotStarted
Msg1Idle   == params = NoParams /\ m1 = Msg1NotRun

UnpackInit ==
  /\ uin \in UnpackInputs
  /\ ures = NotRun
  /\ BitsIdle /\ PostIdle /\ DriverIdle /\ Msg1Idle

Unpack ==
  /\ ~ures.run
  /\ ures' = Bind(from_sixbit(BitVectorEmpty, uin.payload),
                  LAMBDA bits :
                    [run |-> TRUE, bitlen |-> bits.bitlen,
                     res |-> aivdm_unpack(bits, 0, NoValues,
                                          Schema(uin.schema))])
  /\ UNCHANGED <<uin, bitsVars, postVars, driverVars, msg1Vars>>

UnpackNext == Unpack

SpecUnpack == UnpackInit /\ [][UnpackNext]_vars

-----------------------------------------------------------------------------
(* SpecBits: a bit vector filled by from_sixbit and read by ubits / sbits. *)
(* An extraction leaves the vector as it is, so q keeps one extraction per *)
(* vector state; the next from_sixbit clears it.                           *)

MaxChars == 3
MaxWidth == 9
MaxAppend == 2

\* "0" (000000), "j" (110010), "w" (111111); "/" below the armor range,
\* "X" between its two halves, "x" above it
BitsAlphabet == {48, 106, 119, 47, 88, 120}

BitsInit ==
  /\ bv = BitVectorEmpty
  /\ q = NoQuery
  /\ sixbit = <<>>
  /\ UnpackIdle /\ PostIdle /\ DriverIdle /\ Msg1Idle

FromSixbit ==
  \E data \in Strings(BitsAlphabet, MaxAppend) :
    /\ data # <<>>
    /\ Len(bv.bits) + Len(data) <= MaxChars
    /\ bv' = from_sixbit(bv, data)
    /\ sixbit' = sixbit \o data
    /\ q' = NoQuery
    /\ UNCHANGED <<unpackVars, postVars, driverVars, msg1Vars>>

Ubits ==
  \E start \in 0..(BITS_PER_BYTE * MaxChars), width \in 1..MaxWidth :
    /\ q.op = "none"
    /\ start < BITS_PER_BYTE * Len(bv.bits)
    /\ LET r == ubits(bv, start, width)
       IN  q' = [op |-> "ubits", start |-> start, width |-> width,
                 err |-> r.err, v |-> r.v, read |-> r.read]
    /\ UNCHANGED <<bv, sixbit, unpackVars, postVars, driverVars, msg1Vars>>

Sbits ==
  \E start \in 0..(BITS_PER_BYTE * MaxChars), width \in 1..MaxWidth :
    /\ q.op = "none"
    /\ start < BITS_PER_BYTE * Len(bv.bits)
    /\ LET r == sbits(bv, start, width)
       IN  q' = [op |-> "sbits", start |-> start, width |-> width,
                 err |-> r.err, v |-> r.v, read |-> r.read]
    /\ UNCHANGED <<bv, sixbit, unpackVars, postVars, driverVars, msg1Vars>>

BitsNext == FromSixbit \/ Ubits \/ Sbits

SpecBits == BitsInit /\ [][BitsNext]_vars

-----------------------------------------------------------------------------
(* SpecPost: lines 760-779 of parse_ais_messages applied to a list of the  *)
(* shape aivdm_unpack returns.                                             *)

MaxFields == 3

PostValues ==
  {[type |-> "string", value |-> StrVal(<<"A", "L", "F", "A">>)],
   [type |-> "string", value |-> StrVal(<<"B", "R", "A", "V", "O">>)],
   [type |-> "unsigned", value |-> IntVal(7)]}

PostEntries ==
  {[name |-> n, value |-> v.value, type |-> v.type, legend |-> "Name",
    mutable |-> TRUE] : n \in {"name", "id"}, v \in PostValues}

RECURSIVE Lists(_, _)
Lists(entries, n) ==
  IF n = 0 THEN {<<>>}
  ELSE Bind(Lists(entries, n - 1),
            LAMBDA shorter :
              shorter \cup {l \o <<e>> : l \in {x \in shorter : Len(x) = n - 1},
                                         e \in entries})

\* the lists aivdm_unpack returns for a class A position report, a base
\* station report and a static and voyage report, whole and cut short
PostRecords ==
  LET payloads == UNION {Cuts(Armor(FieldsBits(m))) :
                           m \in {MsgCnb(1, 123456789),
                                  MsgType4(123456789, 1),
                                  MsgType5(123456789, 70)}}
      results  == {aivdm_unpack(from_sixbit(BitVectorEmpty, p), 0, NoValues,
                                aivdm_decode) : p \in payloads}
  IN  {r.cooked : r \in {x \in results : x.err = "none"}}

PostInit ==
  /\ pin \in Lists(PostEntries, MaxFields) \cup PostRecords
  /\ pres = PostNotRun
  /\ BitsIdle /\ UnpackIdle /\ DriverIdle /\ Msg1Idle

Post ==
  /\ ~pres.run
  /\ pres' = [run |-> TRUE, res |-> PostProcess(pin)]
  /\ UNCHANGED <<pin, bitsVars, unpackVars, driverVars, msg1Vars>>

PostNext == Post

SpecPost == PostInit /\ [][PostNext]_vars

-----------------------------------------------------------------------------
(* SpecDriver: the generator run to its end over a source of at most       *)
(* MaxLines lines.                                                          *)

MaxLines == 3

\* the line !AIVDM,expect,fragment,,A,segment,0*00
Sentence(expect, fragment, segment) ==
  <<33, 65, 73, 86, 68, 77, Comma>> \o expect \o <<Comma>> \o fragment
  \o <<Comma, Comma, 65, Comma>> \o segment
  \o <<Comma, 48, 42, 48, 48, Newline>>

CommentLine == <<Hash, 120, Newline>>

BlankLine == <<Newline>>

\* a class A position report in quarters of 7 characters, the first
\* quarter of one whose msgtype is 0, and a report cut after 2 characters
SegA   == SubSeq(Armor(FieldsBits(MsgCnb(1, 123456789))), 1, 7)
SegB   == SubSeq(Armor(FieldsBits(MsgCnb(1, 123456789))), 8, 14)
SegBad == SubSeq(Armor(FieldsBits(MsgCnb(0, 123456789))), 1, 7)
SegCut == SubSeq(Armor(FieldsBits(MsgCnb(1, 123456789))), 1, 2)

\* the texts "1", "2", "3" and "10" of the fields expect and fragment
FieldText == [one |-> <<49>>, two |-> <<50>>, three |-> <<51>>,
              ten |-> <<49, 48>>]

SourceLines ==
  LET t == FieldText
  IN  { CommentLine, BlankLine,
        Sentence(t.one, t.one, SegA), Sentence(t.one, t.one, SegBad),
        Sentence(t.one, t.one, SegCut),
        Sentence(t.two, t.one, SegA), Sentence(t.two, t.two, SegB),
        Sentence(t.three, t.one, SegA), Sentence(t.three, t.two, SegB),
        Sentence(t.three, t.three, SegB),
        Sentence(t.ten, t.one, SegA), Sentence(t.ten, t.two, SegB) }

DriverInit ==
  /\ source \in Lists(SourceLines, MaxLines)
  /\ drv = NotStarted
  /\ BitsIdle /\ UnpackIdle /\ PostIdle /\ Msg1Idle

DriverNext == Eof \/ Comment \/ Accumulate \/ Emit \/ Fail

SpecDriver == DriverInit /\ [][DriverNext]_vars

-----------------------------------------------------------------------------
(* SpecMsg1: encode applied to a params dictionary, decode to its result.  *)
(* The dictionaries are two full ones, each with one key at a time given   *)
(* another value of its range or taken out.                                *)

\* testParams()
TestParams ==
  [RepeatIndicator |-> 1, UserID |-> 1193046, NavigationStatus |-> 3,
   ROT |-> -2, SOG |-> Dec(1019, 10), PositionAccuracy |-> 1,
   longitude |-> Dec(-732979683, 6000000),
   latitude |-> Dec(224546750, 6000000),
   COG |-> Dec(345, 10), TrueHeading |-> 41, TimeStamp |-> 35,
   RAIM |-> FALSE, state_syncstate |-> 2, state_slottimeout |-> 0,
   state_slotoffset |-> 1221]

\* every field at the upper end of its range
TopParams ==
  [RepeatIndicator |-> 3, UserID |-> 1073741823, NavigationStatus |-> 15,
   ROT |-> 127, SOG |-> Dec(10239, 100), PositionAccuracy |-> 0,
   longitude |-> Dec(1080000000, 6000000),
   latitude |-> Dec(540000000, 6000000),
   COG |-> Dec(40959, 100), TrueHeading |-> 511, TimeStamp |-> 63,
   RAIM |-> TRUE, state_syncstate |-> 3, state_slottimeout |-> 7,
   state_slotoffset |-> 16383]

ParamRange(key) ==
  CASE key = "RepeatIndicator"   -> {0, 1, 2, 3}
    [] key = "UserID"            -> {0, 1, 1193046, 1073741823}
    [] key = "NavigationStatus"  -> {0, 3, 15}
    [] key = "ROT"               -> {-128, -2, -1, 0, 127}
    [] key = "SOG"               -> {Dec(0, 10), Dec(5, 100), Dec(1019, 10),
                                     Dec(10199, 100), Dec(1023, 10)}
    [] key = "PositionAccuracy"  -> {0, 1}
    [] key = "longitude"         -> {Dec(n, 6000000) :
                                       n \in {-1080000000, -732979683, -5, 0,
                                              5, 1080000000}}
    [] key = "latitude"          -> {Dec(n, 6000000) :
                                       n \in {-540000000, -9, 0, 224546750,
                                              540000000}}
    [] key = "COG"               -> {Dec(0, 10), Dec(345, 10), Dec(3455, 100),
                                     Dec(3599, 10)}
    [] key = "TrueHeading"       -> {0, 41, 511}
    [] key = "TimeStamp"         -> {0, 35, 63}
    [] key = "RAIM"              -> {TRUE, FALSE}
    [] key = "state_syncstate"   -> {0, 2, 3}
    [] key = "state_slottimeout" -> {0, 7}
    [] key = "state_slotoffset"  -> {0, 1221, 16383}

Without(p, key) == [k \in DOMAIN p \ {key} |-> p[k]]

ParamsSet ==
  UNION {{[base EXCEPT ![key] = v] : v \in ParamRange(key)}
           \cup {Without(base, key)} :
         base \in {TestParams, TopParams}, key \in DOMAIN TestParams}
  \cup {[k \in RequiredKeys \cup given |-> base[k]] :
          base \in {TestParams, TopParams},
          given \in {{}, {"ROT", "longitude"}, {"SOG", "TimeStamp"}}}

Msg1Init ==
  /\ params \in ParamsSet
  /\ m1 = Msg1NotRun
  /\ BitsIdle /\ UnpackIdle /\ PostIdle /\ DriverIdle

Encode ==
  /\ m1.stage = "none"
  /\ \E e \in {encode(params)} :
       m1' = [m1 EXCEPT !.stage = "encoded", !.err = e.err, !.bv = e.bv]
  /\ UNCHANGED <<params, bitsVars, unpackVars, postVars, driverVars>>

Decode1 ==
  /\ m1.stage = "encoded" /\ m1.err = "none"
  /\ m1' = [m1 EXCEPT !.stage = "decoded", !.r = decode(m1.bv)]
  /\ UNCHANGED <<params, bitsVars, unpackVars, postVars, driverVars>>

Msg1Next == Encode \/ Decode1

SpecMsg1 == Msg1Init /\ [][Msg1Next]_vars

-----------------------------------------------------------------------------
(* Reference bit extraction, used by the properties of ubits and sbits     *)

\* bit k of the buffer, counting from the most significant bit of byte 0
RefBit(b, k) == BitAt(b.bits[(k \div 8) + 1], 7 - (k % 8))

\* the big-endian value of the bits start .. start+width-1
RECURSIVE RefValue(_, _, _)
RefValue(b, start, width) ==
  IF width = 0 THEN 0
  ELSE 2 * RefValue(b, start, width - 1) + RefBit(b, start + width - 1)

\* the bytes that hold at least one bit of the window
CoveringBytes(start, width) ==
  {i \in 0..(start + width) : 8 * i < start + width /\ 8 * (i + 1) > start}

InsideBuffer == q.start + q.width <= bv.bitlen

-----------------------------------------------------------------------------
(* C8: for every buffer built by from_sixbit and every start, width >= 1   *)
(* with start + width <= bitlen, ubits(start, width) is the big-endian     *)
(* value of the bits start .. start+width-1 and reads exactly the bytes    *)
(* that cover the window.                                                  *)
C8_UbitsIsReference ==
  (q.op = "ubits" /\ InsideBuffer) =>
     /\ q.err = "none"
     /\ q.v = RefValue(bv, q.start, q.width)
     /\ q.read = CoveringBytes(q.start, q.width)

\* an unaligned window that crosses a byte boundary and holds a set bit
C8_Witness ==
  /\ q.op = "ubits" /\ InsideBuffer
  /\ q.start % 8 # 0
  /\ (q.start + q.width) % 8 # 0
  /\ q.start \div 8 # (q.start + q.width - 1) \div 8
  /\ q.v > 0 /\ q.v < Pow2(q.width) - 1

(* C9: sbits(start, w) = ubits(start, w) when the top bit of the window is *)
(* 0, ubits(start, w) - 2^w when it is 1, and so lies in                   *)
(* -2^(w-1) .. 2^(w-1)-1.                                                  *)
C9_TwosComplement ==
  (q.op = "sbits" /\ InsideBuffer) =>
     LET u == RefValue(bv, q.start, q.width)
     IN  /\ q.err = "none"
         /\ RefBit(bv, q.start) = 0 => q.v = u
         /\ RefBit(bv, q.start) = 1 => q.v = u - Pow2(q.width)
         /\ q.v >= -Pow2(q.width - 1)
         /\ q.v <= Pow2(q.width - 1) - 1

\* width 8 over the bits 10000000: unsigned 128, signed -128
C9_Witness ==
  /\ q.op = "sbits" /\ InsideBuffer
  /\ q.width = 8
  /\ RefValue(bv, q.start, q.width) = 128
  /\ q.v = -128

-----------------------------------------------------------------------------
(* What the interpreter did, read off the trace                            *)

\* the field entries of a trace and of the recursive calls under it, in order
RECURSIVE FlatFields(_)
FlatFields(tr) ==
  IF tr = <<>> THEN <<>>
  ELSE (IF tr[1].ev = "field" THEN <<tr[1]>> ELSE FlatFields(tr[1].sub))
       \o FlatFields(Tail(tr))

\* the dispatch entries of a trace and of the recursive calls under it
RECURSIVE FlatDispatches(_)
FlatDispatches(tr) ==
  IF tr = <<>> THEN <<>>
  ELSE (IF tr[1].ev = "dispatch"
        THEN <<tr[1]>> \o FlatDispatches(tr[1].sub) ELSE <<>>)
       \o FlatDispatches(Tail(tr))

Range(f) == {f[k] : k \in DOMAIN f}

Names(cooked) == [k \in DOMAIN cooked |-> cooked[k].name]

TopLevel == ures.run /\ uin.schema = "aivdm_decode"

-----------------------------------------------------------------------------
(* C4: when unpack returns a record for a buffer shorter than the schema,  *)
(* every field of the record lies wholly inside the buffer: its cursor     *)
(* plus its width is at most the buffer's bit length.                      *)
C4_FieldsInsideBuffer ==
  (TopLevel /\ ures.res.err = "none") =>
     \A e \in Range(FlatFields(ures.res.trace)) :
        e.at + e.width <= ures.bitlen

(* C5: for a payload of any length, unpack of the top-level schema raises  *)
(* no error from running out of bits or bytes.                             *)
C5_TruncationNeverRaises ==
  TopLevel => ~(ures.res.err = "IndexError" /\ ures.res.raisedIn = "bitfield")

(* C6: in any schema, the element that follows a dispatch node is decoded  *)
(* at the cursor the recursive unpack of the selected sub-schema reached.  *)
RECURSIVE FollowersAtSubEnd(_)
FollowersAtSubEnd(tr) ==
  \A k \in DOMAIN tr :
     tr[k].ev = "dispatch" =>
        /\ FollowersAtSubEnd(tr[k].sub)
        /\ (k < Len(tr) => tr[k + 1].at = tr[k].subend)

C6_CursorAdoptedAfterDispatch ==
  ures.run => FollowersAtSubEnd(ures.res.trace)

(* C7: at every dispatch node reached, the sub-schema used is              *)
(* subtypes[compute(v)] for the value v decoded for the selector in this   *)
(* message; for type 24, partno 0 decodes part A, partno 1 decodes part B, *)
(* and part B goes on with the mothership layout exactly when the MMSI's   *)
(* decimal text starts with 98.                                            *)
StartsWith98(m) == \E k \in 0..9 : m \div Pow10(k) = 98

\* the subtypes of the catalog's dispatch on a selector, and the index the
\* selector's value stands for
SubtypesOn(selector) ==
  CASE selector = "msgtype" -> aivdm_decode[4].subtypes
    [] selector = "partno"  -> type24[2].subtypes
    [] selector = "mmsi"    -> type24b[3].subtypes

IndexOn(selector, v) ==
  IF selector = "mmsi" THEN (IF StartsWith98(v) THEN 1 ELSE 0) ELSE v

Type24Head == <<"msgtype", "repeat", "mmsi", "partno">>

C7_DispatchBySelector ==
  TopLevel =>
    LET res  == ures.res
        bits == from_sixbit(BitVectorEmpty, uin.payload)
        partno == RefValue(bits, 38, 2)
        mmsi   == RefValue(bits, 8, 30)
    IN  /\ \A d \in Range(FlatDispatches(res.trace)) :
             /\ d.name \in DOMAIN res.values
             /\ d.table =
                  SubtypesOn(d.name)[IndexOn(d.name, res.values[d.name].i) + 1]
        /\ (res.err = "none" /\ ures.bitlen >= 168
             /\ RefValue(bits, 0, 6) = 24) =>
             /\ partno = 0 =>
                  Names(res.cooked) = Type24Head \o <<"shipname">>
             /\ (partno = 1 /\ StartsWith98(mmsi)) =>
                  Names(res.cooked) = Type24Head \o
                    <<"shiptype", "vendorid", "mothership_mmsi">>
             /\ (partno = 1 /\ ~StartsWith98(mmsi)) =>
                  Names(res.cooked) = Type24Head \o
                    <<"shiptype", "vendorid", "callsign", "to_bow",
                      "to_stern", "to_port", "to_starbord">>

\* a part B report decoded through both dispatches into the mothership layout
C7_Witness ==
  /\ TopLevel /\ ures.res.err = "none"
  /\ \E d \in Range(FlatDispatches(ures.res.trace)) :
        d.name = "mmsi" /\ d.i = 1 /\ d.table = "type24b2"
  /\ \E d \in Range(FlatDispatches(ures.res.trace)) :
        d.name = "partno" /\ d.i = 1 /\ d.table = "type24b"
  /\ ures.res.cooked[Len(ures.res.cooked)].name = "mothership_mmsi"

-----------------------------------------------------------------------------
(* C3: when the record holds two or more 'string' fields of one name, the  *)
(* post-processing ends without error; the first of them then holds the    *)
(* values of all of them joined in order, the later ones are gone, and     *)
(* every other field is as it was, in its place.                           *)
TextOf(cooked, name) == {k \in DOMAIN cooked :
                           cooked[k].type = "string" /\ cooked[k].name = name}

IsFirstText(cooked, k) ==
  cooked[k].type = "string" /\ \A j \in TextOf(cooked, cooked[k].name) : k <= j

IsLaterText(cooked, k) == cooked[k].type = "string" /\ ~IsFirstText(cooked, k)

RECURSIVE Joined(_, _, _)
Joined(cooked, name, k) ==
  IF k > Len(cooked) THEN <<>>
  ELSE (IF k \in TextOf(cooked, name) THEN cooked[k].value.s ELSE <<>>)
       \o Joined(cooked, name, k + 1)

RECURSIVE RefMerge(_, _)
RefMerge(cooked, k) ==
  IF k > Len(cooked) THEN <<>>
  ELSE (IF IsLaterText(cooked, k) THEN <<>>
        ELSE IF IsFirstText(cooked, k)
        THEN <<[cooked[k] EXCEPT
                  !.value = StrVal(Joined(cooked, cooked[k].name, 1))]>>
        ELSE <<cooked[k]>>)
       \o RefMerge(cooked, k + 1)

HasExtension(cooked) == \E k \in DOMAIN cooked : IsLaterText(cooked, k)

C3_ExtensionMerge ==
  (pres.run /\ HasExtension(pin)) =>
     /\ pres.res.err = "none"
     /\ pres.res.cooked = RefMerge(pin, 1)

\* without an extension the post-processing returns the list as it was
PostKeepsPlainLists ==
  (pres.run /\ ~HasExtension(pin)
     /\ \A k \in DOMAIN pin : pin[k].name \notin {"month", "day"}) =>
     pres.res.err = "none" /\ pres.res.cooked = pin

-----------------------------------------------------------------------------
(* The lines of a source, read as sentences                                *)

IsSentence(line) == ~IsComment(line) /\ Len(Split(line)) >= 6

\* the number a decimal text stands for
RECURSIVE Num(_)
Num(t) ==
  IF t = <<>> THEN 0
  ELSE 10 * Num(SubSeq(t, 1, Len(t) - 1)) + (t[Len(t)] - 48)

ExpectOf(line)   == Num(Split(line)[2])
FragmentOf(line) == Num(Split(line)[3])
SegmentOf(line)  == Split(line)[6]

\* the segments of lines 1..k of the source, joined
RECURSIVE Segments(_)
Segments(k) ==
  IF k = 0 THEN <<>> ELSE Segments(k - 1) \o SegmentOf(source[k])

\* the rounds that went on to decode a payload
Assembled == {i \in DOMAIN drv.log : drv.log[i].kind \in {"emit", "raise"}}

\* the source is the first lines of one message: every line a sentence
\* with the same count N >= 1, line i carrying fragment number i <= N
OneMessage ==
  /\ Len(source) >= 1
  /\ \A i \in DOMAIN source :
       /\ IsSentence(source[i])
       /\ ExpectOf(source[i]) = ExpectOf(source[1])
       /\ FragmentOf(source[i]) = i
  /\ Len(source) <= ExpectOf(source[1])

(* C1: N lines of one message, count N and fragments 1..N in order, give   *)
(* exactly one assembled payload, on line N, which is the N segments       *)
(* joined in order; fewer than N of those lines give none.                 *)
C1_Reassembly ==
  (drv.status # "running" /\ OneMessage) =>
     IF Len(source) < ExpectOf(source[1])
     THEN Assembled = {}
     ELSE /\ Assembled = {Len(source)}
          /\ drv.log[Len(source)].payload = Segments(Len(source))

(* C2: a line whose fragment number is less, as a number, than its count   *)
(* yields nothing and only takes the line's segment into the accumulator.  *)
C2_NoEmitBelowCount ==
  \A i \in DOMAIN drv.log :
     (IsSentence(source[i]) /\ FragmentOf(source[i]) < ExpectOf(source[i])) =>
        /\ drv.log[i].kind = "accumulate"
        /\ drv.log[i].payload =
             (IF FragmentOf(source[i]) = 1 THEN <<>> ELSE drv.log[i].before)
             \o SegmentOf(source[i])

\* what does hold: complete messages of fewer than ten fragments
ReassemblyBelowTen ==
  (drv.status # "running" /\ OneMessage /\ ExpectOf(source[1]) < 10) =>
     IF Len(source) < ExpectOf(source[1])
     THEN Assembled = {}
     ELSE /\ Assembled = {Len(source)}
          /\ drv.log[Len(source)].payload = Segments(Len(source))

-----------------------------------------------------------------------------
(* C10: for a params dictionary whose values fit their fields,             *)
(* decode(encode(params)) gives back each integer and boolean field as it  *)
(* was given, MessageID 1, RegionalReserved 0 and Spare 0, SOG and COG     *)
(* equal to the input down to the first decimal place, and longitude and   *)
(* latitude within one 1/600000 degree of the input.                       *)
IntegerKeys ==
  {"RepeatIndicator", "UserID", "NavigationStatus", "ROT",
   "PositionAccuracy", "TrueHeading", "TimeStamp", "state_syncstate",
   "state_slottimeout", "state_slotoffset"}

Abs(x) == IF x < 0 THEN -x ELSE x

\* out, in tenths, is the input cut after its first decimal place
ToOneDecimal(in, out) ==
  /\ out.d = 10
  /\ 0 <= in.n * 10 - out.n * in.d
  /\ in.n * 10 - out.n * in.d < in.d

\* out, in 1/600000, is less than one 1/600000 away from the input
WithinQuantum(in, out) ==
  /\ out.d = 600000 /\ in.d % out.d = 0
  /\ Abs(in.n - out.n * (in.d \div out.d)) < in.d \div out.d

-----------------------------------------------------------------------------
(* C11: when a field's validator rejects the decoded value (msgtype 0, 23  *)
(* or above 24; epfd above 8; shiptype above 99), unpack raises the        *)
(* validation error with that field's name and the rejected value, and     *)
(* returns no list; a list that is returned holds no rejected value.       *)
Rejected(name, n) ==
  CASE name = "msgtype"  -> n = 0 \/ n = 23 \/ n > 24
    [] name = "epfd"     -> n > 8
    [] name = "shiptype" -> n > 99
    [] OTHER             -> FALSE

\* the call raised the validation error for the field with the value
RaisedValidation(res, name, n) ==
  /\ res.err = "AISUnpackingException"
  /\ res.failed = [name |-> name, value |-> IntVal(n)]

\* the validated field of a message of the type, when it lies at a fixed
\* place: where it starts and how wide it is
ValidatedWindow ==
  << [msgtype |-> 4, partno |-> 0, name |-> "epfd", start |-> 134,
      width |-> 4],
     [msgtype |-> 5, partno |-> 0, name |-> "shiptype", start |-> 232,
      width |-> 8],
     [msgtype |-> 24, partno |-> 1, name |-> "shiptype", start |-> 40,
      width |-> 8] >>

C11_ValidationAborts ==
  TopLevel =>
    LET res  == ures.res
        bits == from_sixbit(BitVectorEmpty, uin.payload)
        mt   == RefValue(bits, 0, 6)
    IN  /\ res.err = "none" =>
             \A k \in DOMAIN res.cooked :
                ~Rejected(res.cooked[k].name, res.cooked[k].value.i)
        /\ res.err = "AISUnpackingException" =>
             Rejected(res.failed.name, res.failed.value.i)
        /\ (ures.bitlen >= 6 /\ Rejected("msgtype", mt)) =>
             RaisedValidation(res, "msgtype", mt)
        /\ \A w \in Range(ValidatedWindow) :
             (/\ ures.bitlen >= w.start + w.width
              /\ mt = w.msgtype
              /\ (w.msgtype = 24 => RefValue(bits, 38, 2) = w.partno)
              /\ Rejected(w.name, RefValue(bits, w.start, w.width))) =>
               RaisedValidation(res, w.name,
                                RefValue(bits, w.start, w.width))

\* a base station report whose fix type is rejected after nine fields of
\* the message were decoded
C11_Witness ==
  /\ TopLevel /\ RaisedValidation(ures.res, "epfd", 9)
  /\ Len(ures.res.cooked) = 3
  /\ Len(FlatFields(ures.res.trace)) = 12

-----------------------------------------------------------------------------
(* C12: from_sixbit fails when the text holds a character outside the      *)
(* armor range (code below 48, above 119, or 88..95 between the two        *)
(* halves): once such a character was given, the buffer does not hold six  *)
(* decoded bits for every character given.                                 *)
InArmorRange(c) == (c >= 48 /\ c <= 87) \/ (c >= 96 /\ c <= 119)

C12_InvalidArmorRejected ==
  (\E k \in DOMAIN sixbit : ~InArmorRange(sixbit[k])) =>
     bv.bitlen < 6 * Len(sixbit)

-----------------------------------------------------------------------------
(* C13: after a payload was emitted the accumulator is empty again: the    *)
(* payload of the next emitted message is made of segments of the lines    *)
(* read after that emit alone, so it is no longer than those segments      *)
(* together, whatever fragment number the lines carry.                     *)
Emits == {i \in DOMAIN drv.log : drv.log[i].kind = "emit"}

\* the length of the segments of the sentences among lines lo..hi
RECURSIVE SegmentsLen(_, _)
SegmentsLen(lo, hi) ==
  IF lo > hi THEN 0
  ELSE SegmentsLen(lo, hi - 1)
       + (IF IsSentence(source[hi]) THEN Len(SegmentOf(source[hi])) ELSE 0)

C13_AccumulatorEmptyAfterEmit ==
  \A i \in Emits, k \in Emits :
     i < k => Len(drv.log[k].payload) <= SegmentsLen(i + 1, k)

-----------------------------------------------------------------------------
(* C14: a line that starts with '#' changes nothing of the generator but   *)
(* the count of lines read, and what the generator yields for a source,    *)
(* and how it ends, is what it yields for the source with those lines      *)
(* taken out.                                                              *)
StartsWithHash(line) == line # <<>> /\ line[1] = 35

Uncommented(lines) == SelectSeq(lines, LAMBDA l : ~StartsWithHash(l))

\* One round of the loop for a line that is no comment, on the locals
\* alone: d is [payload, out, err]; err other than "none" ends the rounds.
ReplayLine(d, line) ==
  LET fields  == Split(line)
      payload == (IF fields[3] = <<49>> THEN <<>> ELSE d.payload) \o fields[6]
      r       == aivdm_unpack(from_sixbit(BitVectorEmpty, payload), 0,
                              NoValues, aivdm_decode)
      c       == PostProcess(r.cooked)
  IN  IF Len(fields) < 6 THEN [d EXCEPT !.err = "IndexError"]
      ELSE IF StrLess(fields[3], fields[2]) THEN [d EXCEPT !.payload = payload]
      ELSE IF r.err # "none" THEN [d EXCEPT !.payload = payload, !.err = r.err]
      ELSE IF c.err # "none" THEN [d EXCEPT !.payload = payload, !.err = c.err]
      ELSE [d EXCEPT !.payload = payload, !.out = @ \o <<c.cooked>>]

RECURSIVE Replay(_, _, _)
Replay(lines, k, d) ==
  IF k > Len(lines) \/ d.err # "none" THEN d
  ELSE Bind(ReplayLine(d, lines[k]), LAMBDA d1 : Replay(lines, k + 1, d1))

SameAsUncommented ==
  drv.status # "running" =>
     LET d == Replay(Uncommented(source), 1,
                     [payload |-> <<>>, out |-> <<>>, err |-> "none"])
     IN  drv.out = d.out /\ drv.err = d.err

CommentStep ==
  (Running /\ drv.pos < Len(source) /\ StartsWithHash(source[drv.pos + 1])) =>
     /\ drv'.pos = drv.pos + 1
     /\ \A f \in {"payload", "values", "out", "status", "err"} :
          drv'[f] = drv[f]

C14_CommentsInvisible == []SameAsUncommented /\ [][CommentStep]_vars

\* a comment between the two fragments of a message that was then yielded
C14_Witness ==
  /\ drv.status = "returned" /\ Len(source) = 3 /\ Len(drv.out) = 1
  /\ StartsWithHash(source[2])
  /\ drv.log[1].kind = "accumulate" /\ drv.log[3].kind = "emit"
  /\ drv.log[3].payload = SegA \o SegB

-----------------------------------------------------------------------------
(* C15: when every line of the source was read and no message failed       *)
(* validation, the generator has returned without an error, has read each  *)
(* line once and has yielded at most one record per line that is no        *)
(* comment, one for each payload completed; an accumulation left           *)
(* incomplete at the end has given no record.                              *)
AllReadNoValidationFailure ==
  /\ drv.status # "running"
  /\ drv.pos = Len(source)
  /\ drv.err # "AISUnpackingException"

C15_StreamTerminates ==
  AllReadNoValidationFailure =>
     /\ drv.status = "returned" /\ drv.err = "none"
     /\ Len(drv.log) = Len(source)
     /\ Len(drv.out) = Cardinality(Emits)
     /\ Len(drv.out) <=
          Cardinality({i \in DOMAIN source : ~StartsWithHash(source[i])})
     /\ \A i \in DOMAIN drv.log :
          drv.log[i].kind = "accumulate" => i \notin Emits

-----------------------------------------------------------------------------
(* C16: when the payload completed on a line has a rejected msgtype, the   *)
(* generator ends on that line with the validation error: the records      *)
(* yielded are those of the payloads completed before it, no line after    *)
(* it is read, and no step takes back or changes a record once yielded.    *)
PayloadRejected(payload) ==
  /\ payload # <<>>
  /\ Rejected("msgtype", RefValue(from_sixbit(BitVectorEmpty, payload), 0, 6))

AbortedByValidation(i) ==
  /\ drv.log[i].kind = "raise"
  /\ drv.status = "raised" /\ drv.err = "AISUnpackingException"
  /\ Len(drv.log) = i /\ drv.pos = i
  /\ Len(drv.out) = Cardinality(Emits)

AbortsOnRejected ==
  \A i \in Assembled :
     PayloadRejected(drv.log[i].payload) => AbortedByValidation(i)

YieldedStays ==
  /\ Len(drv'.out) >= Len(drv.out)
  /\ SubSeq(drv'.out, 1, Len(drv.out)) = drv.out
  /\ drv.status = "raised" => drv' = drv

C16_ValidationAbortsStream == []AbortsOnRejected /\ [][YieldedStays]_vars

\* a record yielded, then a message with msgtype 0, then a line never read
C16_Witness ==
  /\ Len(source) = 3 /\ Len(drv.log) = 2 /\ Len(drv.out) = 1
  /\ drv.log[1].kind = "emit"
  /\ PayloadRejected(drv.log[2].payload) /\ AbortedByValidation(2)
  /\ IsSentence(source[3])

-----------------------------------------------------------------------------
(* C17: the grouping pass takes the entries of field_groups in order; an   *)
(* entry whose template is the names of the fields at offset ..            *)
(* offset+len(template)-1 replaces that run by one field (label, the       *)
(* values combined, legend) and leaves every other field as it was and in  *)
(* its place; any other entry, also one that reaches past the end of the   *)
(* record, changes nothing and raises nothing.  A complete type 4 record   *)
(* has 'time' at index 3, a complete type 5 record 'eta' at index 13.      *)
TemplateAt(rec, g) ==
  /\ Len(rec) >= g.offset + Len(g.template)
  /\ \A k \in DOMAIN g.template : rec[g.offset + k].name = g.template[k]

\* the values of the run, each in two digits at least, with the texts of
\* the entry between and after them
RECURSIVE Combined(_, _, _)
Combined(rec, g, k) ==
  IF k > Len(g.template) THEN <<>>
  ELSE LET n == rec[g.offset + k].value.i
       IN  (IF n >= 0 /\ n < 10 THEN <<"0", DigitChar[n + 1]>> ELSE Repr(n))
           \o <<g.formatter[k]>> \o Combined(rec, g, k + 1)

RefGroup(rec, g) ==
  IF ~TemplateAt(rec, g) THEN rec
  ELSE [k \in 1..(Len(rec) - Len(g.template) + 1) |->
          IF k <= g.offset THEN rec[k]
          ELSE IF k = g.offset + 1
          THEN [name |-> g.label, value |-> StrVal(Combined(rec, g, 1)),
                type |-> "string", legend |-> g.legend, mutable |-> FALSE]
          ELSE rec[k + Len(g.template) - 1]]

C17_GroupingIsReference ==
  (pres.run /\ ~HasExtension(pin)) =>
     /\ pres.res.err = "none"
     /\ pres.res.cooked = RefGroup(RefGroup(pin, field_groups[1]),
                                   field_groups[2])
     /\ (Len(pin) = 15 /\ pin[1].value.i = 4) =>
          /\ Len(pres.res.cooked) = 10
          /\ pres.res.cooked[4].name = "time"
     /\ (Len(pin) = 20 /\ pin[1].value.i = 5) =>
          /\ Len(pres.res.cooked) = 16
          /\ pres.res.cooked[14].name = "eta"

\* a complete base station report: the six fields from index 3 on are now
\* the one field 'time'
C17_Witness ==
  /\ pres.run /\ Len(pin) = 15 /\ pin[4].name = "year"
  /\ pin[9].name = "second" /\ pin[10].name = "accuracy"
  /\ pres.res.cooked[4].name = "time"
  /\ pres.res.cooked[4].value.s =
       <<"2", "0", "0", "7", ":", "0", "5", ":", "1", "4", "T",
         "1", "9", ":", "5", "7", ":", "3", "9", "Z">>
  /\ pres.res.cooked[5] = pin[10]

-----------------------------------------------------------------------------
(* C18: the value of a 'raw' field decoded at cursor start has the bit     *)
(* length of the buffer less start, and its bit i is bit start + i of the  *)
(* buffer, whether start is a multiple of 8 or not.                        *)
IsTailView(v, parent, start) ==
  /\ v.bitlen = parent.bitlen - start
  /\ \A i \in 0..(v.bitlen - 1) : RefBit(v, i) = RefBit(parent, start + i)

C18_RawTailView ==
  (TopLevel /\ ures.res.err = "none") =>
     LET bits   == from_sixbit(BitVectorEmpty, uin.payload)
         fields == FlatFields(ures.res.trace)
     IN  \A k \in DOMAIN ures.res.cooked :
            ures.res.cooked[k].type = "raw" =>
               IsTailView(ures.res.cooked[k].value.b, bits, fields[k].at)

\* on a cursor that is a multiple of 8 the value is the tail of the buffer
RawTailViewAligned ==
  (TopLevel /\ ures.res.err = "none") =>
     LET bits   == from_sixbit(BitVectorEmpty, uin.payload)
         fields == FlatFields(ures.res.trace)
     IN  \A k \in DOMAIN ures.res.cooked :
            (ures.res.cooked[k].type = "raw" /\ fields[k].at % 8 = 0) =>
               IsTailView(ures.res.cooked[k].value.b, bits, fields[k].at)

-----------------------------------------------------------------------------
(* C19: for text of valid armor characters, from_sixbit adds 6 to the bit  *)
(* length per character; group j, read back with ubits, is the code of     *)
(* character j less 48, less 8 more when that is above 40, its most        *)
(* significant bit first; and a call changes no bit that was in the        *)
(* buffer before it.                                                       *)
AllInArmorRange(text) == \A k \in DOMAIN text : InArmorRange(text[k])

SixBitsOf(c) == IF c - 48 > 40 THEN c - 56 ELSE c - 48

GroupsAreArmorValues ==
  AllInArmorRange(sixbit) =>
     /\ bv.bitlen = 6 * Len(sixbit)
     /\ \A j \in DOMAIN sixbit :
          /\ ubits(bv, 6 * (j - 1), 6).err = "none"
          /\ ubits(bv, 6 * (j - 1), 6).v = SixBitsOf(sixbit[j])
          /\ \A i \in 0..5 :
               RefBit(bv, 6 * (j - 1) + i)
                 = (SixBitsOf(sixbit[j]) \div Pow2(5 - i)) % 2

AppendOnly ==
  AllInArmorRange(sixbit') =>
     /\ bv'.bitlen = bv.bitlen + 6 * (Len(sixbit') - Len(sixbit))
     /\ \A k \in 0..(bv.bitlen - 1) : RefBit(bv', k) = RefBit(bv, k)

C19_ArmorAppend == []GroupsAreArmorValues /\ [][AppendOnly]_vars

\* the text "j0w" in the buffer, and its first group read back as 50
C19_Witness ==
  /\ sixbit = <<106, 48, 119>> /\ bv.bitlen = 18
  /\ q.op = "ubits" /\ q.start = 0 /\ q.width = 6 /\ q.v = 50

-----------------------------------------------------------------------------
(* C20: encode called with a dictionary that lacks one of UserID,          *)
(* PositionAccuracy, RAIM, state_syncstate, state_slottimeout and          *)
(* state_slotoffset raises ValueError and returns no bit vector.           *)
LacksRequired(p) ==
  \E key \in {"UserID", "PositionAccuracy", "RAIM", "state_syncstate",
              "state_slottimeout", "state_slotoffset"} : key \notin DOMAIN p

C20_MissingKeyIsValueError ==
  (m1.stage = "encoded" /\ LacksRequired(params)) =>
     m1.err = "ValueError" /\ m1.bv = <<>>

\* what does hold: the call raises KeyError and returns no bit vector
MissingKeyIsKeyError ==
  m1.stage = "encoded" =>
     /\ LacksRequired(params) => m1.err = "KeyError" /\ m1.bv = <<>>
     /\ ~LacksRequired(params) => m1.err = "none" /\ Len(m1.bv) = 168

-----------------------------------------------------------------------------
(* C21: for every optional field left out of params, decode(encode(params)) *)
(* gives the 'not available' value: RepeatIndicator 0, NavigationStatus    *)
(* 15, ROT -128, SOG 102.3, longitude 181, latitude 91, COG 360,           *)
(* TrueHeading 511, TimeStamp 60; and every field that was given decodes   *)
(* as it does when the fields left out are given as well.                  *)
NotAvailable ==
  [RepeatIndicator |-> 0, NavigationStatus |-> 15, ROT |-> -128,
   SOG |-> Dec(1023, 10), longitude |-> Dec(181, 1), latitude |-> Dec(91, 1),
   COG |-> Dec(360, 1), TrueHeading |-> 511, TimeStamp |-> 60]

\* the same number: two ints, or two fractions of equal value
SameNumber(k, a, b) ==
  IF k \in {"SOG", "longitude", "latitude", "COG"}
  THEN a.n * b.d = b.n * a.d
  ELSE a = b

\* params with the fields left out given the values of testParams
Completed(p) ==
  [k \in DOMAIN TestParams |-> IF k \in DOMAIN p THEN p[k] ELSE TestParams[k]]

C21_EncodeDefaults ==
  m1.stage = "decoded" =>
     /\ \A k \in DOMAIN NotAvailable \ DOMAIN params :
          SameNumber(k, m1.r[k], NotAvailable[k])
     /\ \A k \in DOMAIN params :
          m1.r[k] = decode(encode(Completed(params)).bv)[k]

\* only the required fields given: every optional field decodes as its
\* 'not available' value
C21_Witness ==
  /\ m1.stage = "decoded" /\ DOMAIN params = RequiredKeys
  /\ m1.r.ROT = -128 /\ m1.r.SOG = Dec(1023, 10)
  /\ m1.r.longitude = Dec(108600000, 600000)
  /\ m1.r.UserID = params.UserID

-----------------------------------------------------------------------------
(* C22: every buffer, the one from_sixbit filled and every 'raw' value the *)
(* interpreter made from it, has a bit length that is not negative and is  *)
(* at most 8 times the number of bytes it holds.                           *)
SizeInvariant(b) == b.bitlen >= 0 /\ b.bitlen <= 8 * Len(b.bits)

\* the 'raw' values a call stored in values
RawValues(res) ==
  {res.values[n].b : n \in {x \in DOMAIN res.values : res.values[x].k = "raw"}}

C22_BufferSize ==
  ures.run =>
     /\ SizeInvariant(from_sixbit(BitVectorEmpty, uin.payload))
     /\ \A b \in RawValues(ures.res) : SizeInvariant(b)

\* the same for a buffer filled by several calls of from_sixbit
BufferSizeAfterAppends == SizeInvariant(bv)

\* the raw value of a type 17 message: the 19 bits from bit 77 on, held in
\* the 7 bytes from byte 9 on
C22_Witness ==
  /\ TopLevel /\ ures.res.err = "none" /\ ures.bitlen = 96
  /\ \E b \in RawValues(ures.res) : b.bitlen = 19 /\ Len(b.bits) = 7

-----------------------------------------------------------------------------
(* C23: for a message whose last field is a 'string' or a 'raw' (types 6,  *)
(* 8, 12, 14 and 17), a payload that ends anywhere inside the last field   *)
(* is unpacked into one entry for every field of the schema, the last one  *)
(* included.                                                               *)
\* the names of the fields of a table, in order
FieldNames(table) ==
  LET fields == SelectSeq(table, LAMBDA inst : inst.kind = "bitfield")
  IN  [k \in DOMAIN fields |-> fields[k].name]

\* the cursor at which the last field of the message type starts
LastFieldAt(mt) ==
  CASE mt = 6 -> 88 [] mt = 8 -> 56 [] mt = 12 -> 72 [] mt = 14 -> 39
    [] mt = 17 -> 77

EndsInsideLastField(types) ==
  /\ TopLevel /\ ures.bitlen >= 6
  /\ RefValue(from_sixbit(BitVectorEmpty, uin.payload), 0, 6) \in types
  /\ ures.bitlen >
       LastFieldAt(RefValue(from_sixbit(BitVectorEmpty, uin.payload), 0, 6))

EveryFieldYielded ==
  LET mt == RefValue(from_sixbit(BitVectorEmpty, uin.payload), 0, 6)
  IN  /\ ures.res.err = "none"
      /\ Names(ures.res.cooked) =
           <<"msgtype", "repeat", "mmsi">>
           \o FieldNames(Schema(aivdm_decode[4].subtypes[mt + 1]))

C23_LastFieldAlwaysYielded ==
  EndsInsideLastField({6, 8, 12, 14, 17}) => EveryFieldYielded

\* what does hold: the types whose last field is 'raw'
RawLastFieldYielded == EndsInsideLastField({6, 8, 17}) => EveryFieldYielded

-----------------------------------------------------------------------------
(* C24: within one table a spare gives no entry and moves the cursor by    *)
(* its width; a field is extracted at the offset the call started at plus  *)
(* the widths of the fields and spares before it in that table, and moves  *)
(* the cursor by its own width; the entries come in the order of the       *)
(* table, those of a dispatch in the place of the dispatch.                *)
\* the place in the table of its k-th instruction that is no spare
NthNoSpare(table, k) ==
  LET idx == {j \in DOMAIN table : table[j].kind # "spare"}
  IN  CHOOSE j \in idx : Cardinality({i \in idx : i < j}) = k - 1

NoSpares(table) ==
  Cardinality({j \in DOMAIN table : table[j].kind # "spare"})

\* the widths of the fields and spares before place j
RECURSIVE WidthsBefore(_, _)
WidthsBefore(table, j) ==
  IF j <= 1 THEN 0
  ELSE WidthsBefore(table, j - 1)
       + (IF table[j - 1].kind \in {"bitfield", "spare"}
          THEN table[j - 1].width ELSE 0)

\* tr is what a call on the table from cursor start did; returned says
\* that the call and the calls under it returned
RECURSIVE Accounted(_, _, _, _)
Accounted(tr, table, start, returned) ==
  /\ Len(tr) <= NoSpares(table)
  /\ (returned /\ Len(tr) < NoSpares(table)) =>
        start + WidthsBefore(table, NthNoSpare(table, Len(tr) + 1))
          >= ures.bitlen
  /\ \A k \in DOMAIN tr :
       LET j    == NthNoSpare(table, k)
           inst == table[j]
       IN  /\ tr[k].at = start + WidthsBefore(table, j)
           /\ tr[k].at < ures.bitlen
           /\ inst.kind = "bitfield" =>
                /\ tr[k].ev = "field" /\ tr[k].name = inst.name
                /\ tr[k].width = inst.width
           /\ inst.kind = "dispatch" =>
                /\ tr[k].ev = "dispatch"
                /\ Accounted(tr[k].sub, Schema(tr[k].table), tr[k].at,
                             returned)

C24_CursorAccounting ==
  ures.run =>
    LET res    == ures.res
        bits   == from_sixbit(BitVectorEmpty, uin.payload)
        fields == FlatFields(res.trace)
    IN  /\ Accounted(res.trace, Schema(uin.schema), 0, res.err = "none")
        /\ res.err = "none" =>
             /\ Names(res.cooked) = [k \in DOMAIN fields |-> fields[k].name]
             /\ \A k \in DOMAIN fields :
                  (/\ res.cooked[k].type = "unsigned"
                   /\ fields[k].at + fields[k].width <= ures.bitlen) =>
                    res.cooked[k].value.i
                      = RefValue(bits, fields[k].at, fields[k].width)

\* a type 17 message: two spares passed over, six entries, the last field
\* at bit 77 = 38 + 2 + 18 + 17 + 2
C24_Witness ==
  /\ TopLevel /\ ures.res.err = "none" /\ Len(ures.res.cooked) = 6
  /\ ures.res.cooked[1].value.i = 17
  /\ FlatFields(ures.res.trace)[4].name = "lon"
  /\ FlatFields(ures.res.trace)[4].at = 40
  /\ FlatFields(ures.res.trace)[6].at = 77
  /\ Names(ures.res.cooked) =
       <<"msgtype", "repeat", "mmsi", "lon", "lat", "data">>

-----------------------------------------------------------------------------
(* C25: whenever the generator hands a payload to aivdm_unpack the values  *)
(* dictionary is empty, so each record yielded is the record of its own    *)
(* payload alone: no dispatch reads a value left by an earlier message.    *)
\* the place in the log of the n-th record yielded
NthEmit(n) ==
  CHOOSE i \in Emits : Cardinality({j \in Emits : j < i}) = n - 1

\* the record of a payload unpacked on its own, from an empty dictionary
RecordOf(payload) ==
  PostProcess(aivdm_unpack(from_sixbit(BitVectorEmpty, payload), 0,
                           NoValues, aivdm_decode).cooked).cooked

C25_ValuesScopedToMessage ==
  /\ Running => drv.values = NoValues
  /\ \A i \in Assembled : drv.log[i].valuesIn = NoValues
  /\ Len(drv.out) = Cardinality(Emits)
  /\ \A n \in DOMAIN drv.out :
       drv.out[n] = RecordOf(drv.log[NthEmit(n)].payload)

\* three messages yielded one after the other, each unpacked from an
\* empty dictionary
C25_Witness ==
  /\ Len(drv.out) = 3 /\ Emits = {1, 2, 3}
  /\ drv.log[3].valuesIn = NoValues
  /\ Len(drv.out[3]) >= 4

-----------------------------------------------------------------------------
(* C26: a line with fragment number 1 restarts the accumulation: the next  *)
(* payload handed on after such a line, when no later line has fragment    *)
(* number 1 again, is that line's segment followed by the segments of the  *)
(* lines after it that are no comments, whatever was accumulated before.   *)
IsFirstFragment(line) ==
  ~StartsWithHash(line) /\ Len(Split(line)) >= 6 /\ FragmentOf(line) = 1

\* the segments of the lines lo..hi that are no comments, joined
RECURSIVE SegmentsFrom(_, _)
SegmentsFrom(lo, hi) ==
  IF lo > hi THEN <<>>
  ELSE SegmentsFrom(lo, hi - 1)
       \o (IF StartsWithHash(source[hi]) THEN <<>> ELSE SegmentOf(source[hi]))

\* k is the first round at or after line i that handed a payload on, and
\* no line after i up to k has fragment number 1
NextPayloadAfter(i, k) ==
  /\ k \in Assembled /\ i <= k
  /\ \A j \in i..(k - 1) : j \notin Assembled
  /\ \A j \in (i + 1)..k : ~IsFirstFragment(source[j])

C26_FirstFragmentRestarts ==
  \A k \in DOMAIN drv.log, i \in DOMAIN drv.log :
     (IsFirstFragment(source[i]) /\ NextPayloadAfter(i, k)) =>
        drv.log[k].payload = SegmentsFrom(i, k)

\* fragment 1 of 2 twice over, then fragment 2: the payload is the second
\* first fragment and the last line, the first line is dropped
C26_Witness ==
  /\ Len(drv.log) = 3 /\ Len(source) = 3
  /\ IsFirstFragment(source[1]) /\ IsFirstFragment(source[2])
  /\ drv.log[2].kind = "accumulate" /\ drv.log[2].before = SegA
  /\ drv.log[2].payload = SegA
  /\ drv.log[3].kind = "emit" /\ drv.log[3].payload = SegA \o SegB

-----------------------------------------------------------------------------
(* C27: the bits ais_msg_1.encode returns are 168, and aivdm_unpack of     *)
(* them through the top-level table (msgtype 1, table cnb) gives repeat,   *)
(* mmsi, status, turn, speed, accuracy, lon, lat, course, heading, second  *)
(* and raim equal to the integers behind RepeatIndicator, UserID,          *)
(* NavigationStatus, ROT, SOG*10, PositionAccuracy, longitude*600000,      *)
(* latitude*600000, COG*10, TrueHeading, TimeStamp and RAIM of             *)
(* ais_msg_1.decode.                                                       *)
\* the list aivdm_unpack returns for the encoded bits, armored
Unpacked == aivdm_unpack(from_sixbit(BitVectorEmpty, Armor(m1.bv)), 0,
                         NoValues, aivdm_decode)

\* the value of the field of the name in a list
ValueOf(cooked, name) ==
  cooked[CHOOSE k \in DOMAIN cooked : cooked[k].name = name].value.i

CnbNames ==
  <<"msgtype", "repeat", "mmsi", "status", "turn", "speed", "accuracy",
    "lon", "lat", "course", "heading", "second", "maneuver", "raim", "radio">>

\* the field of the generic decoder and the integer decode gave for it
SharedFields ==
  << <<"repeat", m1.r.RepeatIndicator>>, <<"mmsi", m1.r.UserID>>,
     <<"status", m1.r.NavigationStatus>>, <<"turn", m1.r.ROT>>,
     <<"speed", m1.r.SOG.n>>, <<"accuracy", m1.r.PositionAccuracy>>,
     <<"lon", m1.r.longitude.n>>, <<"lat", m1.r.latitude.n>>,
     <<"course", m1.r.COG.n>>, <<"heading", m1.r.TrueHeading>>,
     <<"second", m1.r.TimeStamp>>,
     <<"raim", IF m1.r.RAIM THEN 1 ELSE 0>> >>

C27_DecodersAgree ==
  m1.stage = "decoded" =>
     /\ Len(m1.bv) = 168
     /\ Unpacked.err = "none"
     /\ Names(Unpacked.cooked) = CnbNames
     /\ ValueOf(Unpacked.cooked, "msgtype") = m1.r.MessageID
     /\ m1.r.SOG.d = 10 /\ m1.r.COG.d = 10
     /\ m1.r.longitude.d = 600000 /\ m1.r.latitude.d = 600000
     /\ \A k \in DOMAIN SharedFields :
          ValueOf(Unpacked.cooked, SharedFields[k][1]) = SharedFields[k][2]

\* a report with a negative rate of turn and a western longitude, read
\* alike by both
C27_Witness ==
  /\ m1.stage = "decoded" /\ DOMAIN params = DOMAIN TestParams
  /\ m1.r.ROT < 0 /\ ValueOf(Unpacked.cooked, "turn") = m1.r.ROT
  /\ m1.r.longitude.n < 0
  /\ ValueOf(Unpacked.cooked, "lon") = m1.r.longitude.n
  /\ m1.r.RAIM /\ ValueOf(Unpacked.cooked, "raim") = 1

-----------------------------------------------------------------------------
(* C28: every 'string' field has a width that is a multiple of 6, so the   *)
(* width/6 six-bit groups read for it cover all the bits of the field.     *)
C28_TextFieldsWholeGroups ==
  (TopLevel /\ ures.res.err = "none") =>
     \A k \in DOMAIN ures.res.cooked :
        ures.res.cooked[k].type = "string" =>
           6 * (FlatFields(ures.res.trace)[k].width \div 6)
             = FlatFields(ures.res.trace)[k].width

\* what does hold: the text is the groups read, '@' a space, trailing
\* spaces trimmed; here for the five characters sent
TextOfGroupsRead ==
  (TopLevel /\ ures.res.err = "none" /\ ures.bitlen = 1008) =>
     /\ ures.res.cooked[4].name = "text"
     /\ ures.res.cooked[4].value.s = <<"H", "E", "L", "L", "O">>

-----------------------------------------------------------------------------
(* C29: when no decoded field fails its validator, no dispatch node fails: *)
(* the index computed from the field dispatched on is inside the node's    *)
(* list of sub-schemas and selects a sub-schema.                           *)
C29_DispatchNeverFails ==
  (TopLevel /\ ures.res.err # "AISUnpackingException") =>
     ures.res.raisedIn # "dispatch"

\* what does hold: a dispatch that fails at the top level is the one on
\* partno, for a message of type 24 whose part number is 2 or 3; the
\* validated msgtype never selects an empty slot of the master dispatch
DispatchFailsOnPartnoOnly ==
  (TopLevel /\ ures.res.raisedIn = "dispatch") =>
     /\ ures.res.err = "IndexError"
     /\ RefValue(from_sixbit(BitVectorEmpty, uin.payload), 0, 6) = 24
     /\ RefValue(from_sixbit(BitVectorEmpty, uin.payload), 38, 2) \in {2, 3}

-----------------------------------------------------------------------------
(* C30: every field the interpreter emits carries the extraction of its    *)
(* own bit window, and no message fails for lack of a value: every         *)
(* descriptor declares one of 'unsigned', 'signed', 'string' and 'raw'.    *)
HandledKinds == {"unsigned", "signed", "string", "raw"}

C30_OwnWindowExtracted ==
  TopLevel =>
     /\ ures.res.err # "UnboundLocalError"
     /\ \A k \in DOMAIN ures.res.cooked :
           /\ ures.res.cooked[k].type \in HandledKinds
           /\ ures.res.cooked[k].value.k = "int" =>
                ures.res.cooked[k].value.i \in
                  {RefValue(from_sixbit(BitVectorEmpty, uin.payload),
                            FlatFields(ures.res.trace)[k].at,
                            FlatFields(ures.res.trace)[k].width),
                   RefValue(from_sixbit(BitVectorEmpty, uin.payload),
                            FlatFields(ures.res.trace)[k].at,
                            FlatFields(ures.res.trace)[k].width)
                     - 2 ^ FlatFields(ures.res.trace)[k].width}

\* what does hold: a field of a kind that is none of the four is emitted
\* with the value of the field decoded before it in the same table
LeftoverValueEmitted ==
  TopLevel =>
     \A k \in DOMAIN ures.res.cooked :
        ures.res.cooked[k].type \notin HandledKinds =>
           /\ k > 1
           /\ ures.res.cooked[k].value = ures.res.cooked[k - 1].value

\* and a table whose first field is of such a kind fails
FirstFieldWithoutValue ==
  (TopLevel /\ ures.res.err = "UnboundLocalError") =>
     /\ RefValue(from_sixbit(BitVectorEmpty, uin.payload), 0, 6) = 21
     /\ ures.res.raisedIn = "bitfield"
     /\ ures.res.offset = 38

=============================================================================
